---- MODULE Spec2Model ----
(***************************************************************************)
(* Model of the musiclist scraping pipeline: the SQLite store              *)
(* (storage/database.py), the page fetcher (scrapers/base.py) and the      *)
(* calendar orchestrator (music_calendar.py).                              *)
(*                                                                         *)
(* Conventions.  A date is the integer yyyymmdd, which orders exactly as   *)
(* the ISO text SQLite compares.  The clock `now` counts hours since       *)
(* Epoch 00:00.  SQL NULL / Python None is Null (-1) in integer columns    *)
(* and NoCost in the cost column; a missing venue id is 0 (AUTOINCREMENT   *)
(* ids start at 1).                                                        *)
(***************************************************************************)
EXTENDS Integers, Sequences, FiniteSets, TLC

(* ------------------------------ bounds -------------------------------- *)
MaxVenueId == 2
MaxEventId == 2
MaxBatch == 2
MaxTicks == 1
MaxScrapes == 3
MaxFilter == 2
MaxContainers == 2

(* ------------------------- program constants -------------------------- *)
CacheHours == 24
MaxAttempts == 3
RecentLimit == 50

Null == -1
NoCost == "none"
Epoch == 20251230

VenueNames == {"v1", "v2"}
VENUES_CONFIG == <<"v1", "v2">>

(* ------------------------------ helpers ------------------------------- *)
Range(s) == {s[i] : i \in 1..Len(s)}

(* The lists of at most n different elements of S *)
SeqsUpTo(S, n) ==
  UNION {{f \in [1..k -> S] : \A i, j \in 1..k : f[i] = f[j] => i = j} : k \in 0..n}

(* models.Event.artists_display: the names joined with ", " *)
RECURSIVE artists_display(_)
artists_display(artists) ==
  IF Len(artists) = 0 THEN <<>>
  ELSE IF Len(artists) = 1 THEN <<artists[1]>>
  ELSE <<artists[1], ", ">> \o artists_display(Tail(artists))

(* An Event object as a scraper or caller builds it
   (id 0: not loaded from the store) *)
Event(venue, artists, time, cost, pinned) ==
  [venue |-> venue, date |-> 20260115, time |-> time, artists |-> artists,
   url |-> "u1", cost |-> cost, pinned |-> pinned, id |-> 0]

(* The candidates save_events is called with: two with the same identity  *)
(* key and different time and cost, one with another artist list that     *)
(* arrives pinned, one of another venue.                                  *)
Candidates ==
  {Event("v1", <<"A">>, 20, "$5", FALSE),
   Event("v1", <<"A">>, Null, NoCost, FALSE),
   Event("v1", <<"A", "B">>, Null, NoCost, TRUE),
   Event("v2", <<"A">>, 20, "$5", FALSE)}

(* ------------------------------- state -------------------------------- *)
VARIABLES venues, events, vseq, eseq, venueLog, cache, now, conns, pre, ret

vars == <<venues, events, vseq, eseq, venueLog, cache, now, conns, pre, ret>>

(* The threads that may write the store at the same time, each through   *)
(* its own connection (Database.get_connection opens one per call)        *)
Writers == {"w1", "w2"}

(* A connection on which no save_events is running.  pc: the position in  *)
(* save_events; existing: the rows (id, pinned) the last SELECT fetched;   *)
(* intx: a transaction is open (the connection holds the write lock);     *)
(* view: the events table and its counter as the transaction sees them;   *)
(* error: the exception save_events ended with; missed: the candidates    *)
(* whose SELECT found no row.                                             *)
Idle ==
  [pc |-> "idle", cands |-> <<>>, venue_id |-> 0, i |-> 0, existing |-> {},
   new_count |-> 0, intx |-> FALSE, view |-> [events |-> {}, eseq |-> 0],
   error |-> "", missed |-> {}]

(* The database tables and their AUTOINCREMENT counters, as one value *)
Store == [venues |-> venues, events |-> events, vseq |-> vseq, eseq |-> eseq,
          venueLog |-> venueLog]

Init ==
  /\ venues = {}
  /\ events = {}
  /\ vseq = 0
  /\ eseq = 0
  /\ venueLog = <<>>
  /\ cache = {}
  /\ now = 0
  /\ conns = [w \in Writers |-> Idle]
  /\ pre = [venues |-> {}, events |-> {}, cache |-> {}]
  /\ ret = [op |-> "init"]

(* ------------------------- storage/database.py ------------------------ *)

(* INSERT OR REPLACE INTO venues (name, base_url, calendar_path): a row   *)
(* with the same UNIQUE name is deleted and a new row is inserted, with a *)
(* fresh AUTOINCREMENT id and last_scraped left NULL.  base_url and       *)
(* calendar_path are fixed per name by the configuration and not kept.    *)
save_venue(S, name) ==
  LET id == S.vseq + 1 IN
  [store |-> [S EXCEPT
                !.venues = {r \in S.venues : r.name # name}
                             \cup {[id |-> id, name |-> name, last_scraped |-> Null]},
                !.vseq = id,
                !.venueLog = Append(S.venueLog, name)],
   id |-> id]

get_venue_id(S, name) ==
  IF \E r \in S.venues : r.name = name
  THEN (CHOOSE r \in S.venues : r.name = name).id
  ELSE 0

(* Mutant: the lookup compares the artist list, not the stored string *)
Existing_raw(evs, venue_id, c) ==
  {e \in evs : /\ e.venue_id = venue_id
               /\ e.date = c.date
               /\ e.artists = c.artists
               /\ e.url = c.url}

(* The SELECT of save_events: the stored rows with the candidate's key *)
Existing(evs, venue_id, c) ==
  {e \in evs : /\ e.venue_id = venue_id
               /\ e.date = c.date
               /\ e.artists = artists_display(c.artists)
               /\ e.url = c.url}

(* Mutant: the update writes the candidate's pinned flag as well *)
save_one_replace(acc, venue_id, c) ==
  LET ex == Existing(acc.events, venue_id, c) IN
  IF ex # {}
  THEN [acc EXCEPT
          !.events = {IF e \in ex
                      THEN [e EXCEPT !.time = c.time, !.cost = c.cost,
                                     !.pinned = c.pinned]
                      ELSE e : e \in acc.events},
          !.updated = acc.updated \cup {e.id : e \in ex}]
  ELSE [acc EXCEPT
          !.events = acc.events \cup
                       {[id |-> acc.eseq + 1, venue_id |-> venue_id, date |-> c.date,
                         time |-> c.time, artists |-> artists_display(c.artists),
                         url |-> c.url, cost |-> c.cost, pinned |-> c.pinned]},
          !.eseq = acc.eseq + 1,
          !.new_count = acc.new_count + 1]

(* Mutant: a candidate whose key is stored leaves the row as it is *)
save_one_keep(acc, venue_id, c) ==
  LET ex == Existing(acc.events, venue_id, c) IN
  IF ex # {}
  THEN [acc EXCEPT !.updated = acc.updated \cup {e.id : e \in ex}]
  ELSE [acc EXCEPT
          !.events = acc.events \cup
                       {[id |-> acc.eseq + 1, venue_id |-> venue_id, date |-> c.date,
                         time |-> c.time, artists |-> artists_display(c.artists),
                         url |-> c.url, cost |-> c.cost, pinned |-> c.pinned]},
          !.eseq = acc.eseq + 1,
          !.new_count = acc.new_count + 1]

(* One iteration of the loop of save_events over a candidate *)
save_one(acc, venue_id, c) ==
  LET ex == Existing(acc.events, venue_id, c) IN
  IF ex # {}
  THEN [acc EXCEPT
          !.events = {IF e \in ex THEN [e EXCEPT !.time = c.time, !.cost = c.cost]
                      ELSE e : e \in acc.events},
          !.updated = acc.updated \cup {e.id : e \in ex}]
  ELSE [acc EXCEPT
          !.events = acc.events \cup
                       {[id |-> acc.eseq + 1, venue_id |-> venue_id, date |-> c.date,
                         time |-> c.time, artists |-> artists_display(c.artists),
                         url |-> c.url, cost |-> c.cost, pinned |-> c.pinned]},
          !.eseq = acc.eseq + 1,
          !.new_count = acc.new_count + 1]

RECURSIVE save_loop(_, _, _)
save_loop(acc, venue_id, cands) ==
  IF cands = <<>> THEN acc
  ELSE save_loop(save_one(acc, venue_id, Head(cands)), venue_id, Tail(cands))

(* Mutant: the venue id is not checked before the rows are written *)
save_events_unchecked(S, cands, t) ==
  IF cands = <<>>
  THEN [store |-> S, raised |-> FALSE, new_count |-> 0, updated |-> {}]
  ELSE
    LET venue_id == get_venue_id(S, cands[1].venue)
        acc == save_loop([events |-> S.events, eseq |-> S.eseq,
                          new_count |-> 0, updated |-> {}], venue_id, cands)
    IN [store |-> [S EXCEPT
                     !.events = acc.events,
                     !.eseq = acc.eseq,
                     !.venues = {IF r.id = venue_id
                                 THEN [r EXCEPT !.last_scraped = t]
                                 ELSE r : r \in S.venues}],
        raised |-> FALSE, new_count |-> acc.new_count, updated |-> acc.updated]

(* Mutant: last_scraped is written only when a row was inserted *)
save_events_new_only(S, cands, t) ==
  IF cands = <<>>
  THEN [store |-> S, raised |-> FALSE, new_count |-> 0, updated |-> {}]
  ELSE
    LET venue_id == get_venue_id(S, cands[1].venue) IN
    IF venue_id = 0
    THEN [store |-> S, raised |-> TRUE, new_count |-> 0, updated |-> {}]
    ELSE
      LET acc == save_loop([events |-> S.events, eseq |-> S.eseq,
                            new_count |-> 0, updated |-> {}], venue_id, cands)
      IN [store |-> [S EXCEPT
                       !.events = acc.events,
                       !.eseq = acc.eseq,
                       !.venues = {IF r.id = venue_id /\ acc.new_count > 0
                                   THEN [r EXCEPT !.last_scraped = t]
                                   ELSE r : r \in S.venues}],
          raised |-> FALSE, new_count |-> acc.new_count, updated |-> acc.updated]

(* Mutant: each candidate is stored under the venue of its own field *)
save_events_own_venue(S, cands, t) ==
  IF cands = <<>>
  THEN [store |-> S, raised |-> FALSE, new_count |-> 0, updated |-> {}]
  ELSE
    LET venue_id == get_venue_id(S, cands[1].venue) IN
    IF venue_id = 0
    THEN [store |-> S, raised |-> TRUE, new_count |-> 0, updated |-> {}]
    ELSE
      LET own(c) == c.venue = cands[1].venue
          other(c) == c.venue # cands[1].venue
          acc1 == save_loop([events |-> S.events, eseq |-> S.eseq,
                             new_count |-> 0, updated |-> {}],
                            venue_id, SelectSeq(cands, own))
          rest == SelectSeq(cands, other)
          acc == IF rest = <<>> THEN acc1
                 ELSE save_loop(acc1, get_venue_id(S, rest[1].venue), rest)
      IN [store |-> [S EXCEPT
                       !.events = acc.events,
                       !.eseq = acc.eseq,
                       !.venues = {IF r.id = venue_id
                                   THEN [r EXCEPT !.last_scraped = t]
                                   ELSE r : r \in S.venues}],
          raised |-> FALSE, new_count |-> acc.new_count, updated |-> acc.updated]

(* Database.save_events at clock value t *)
save_events(S, cands, t) ==
  IF cands = <<>>
  THEN [store |-> S, raised |-> FALSE, new_count |-> 0, updated |-> {}]
  ELSE
    LET venue_id == get_venue_id(S, cands[1].venue) IN
    IF venue_id = 0
    THEN [store |-> S, raised |-> TRUE, new_count |-> 0, updated |-> {}]
    ELSE
      LET acc == save_loop([events |-> S.events, eseq |-> S.eseq,
                            new_count |-> 0, updated |-> {}], venue_id, cands)
      IN [store |-> [S EXCEPT
                       !.events = acc.events,
                       !.eseq = acc.eseq,
                       !.venues = {IF r.id = venue_id
                                   THEN [r EXCEPT !.last_scraped = t]
                                   ELSE r : r \in S.venues}],
          raised |-> FALSE, new_count |-> acc.new_count, updated |-> acc.updated]

(* save_events statement by statement, on a connection of its own.  The    *)
(* sqlite3 module runs a SELECT outside any transaction and opens one      *)
(* before the first INSERT or UPDATE; the transaction holds the write     *)
(* lock of the database file until the `with` block commits or rolls      *)
(* back.  Another connection reads the committed tables meanwhile and     *)
(* waits with its own first write.                                        *)

(* Lines 98-105: the empty list, the venue of events[0], the ValueError *)
begin_save(S, cands) ==
  IF cands = <<>> THEN [Idle EXCEPT !.pc = "done"]
  ELSE IF get_venue_id(S, cands[1].venue) = 0
  THEN [Idle EXCEPT !.pc = "done", !.cands = cands, !.error = "ValueError"]
  ELSE [Idle EXCEPT !.pc = "lookup", !.cands = cands, !.i = 1,
                    !.venue_id = get_venue_id(S, cands[1].venue)]

(* Lines 111-122: SELECT id, pinned of the row with the candidate's key,  *)
(* from the transaction's tables or, with none open, the committed ones   *)
select_existing(c, evs) ==
  LET rows == {[id |-> e.id, pinned |-> e.pinned] :
                 e \in Existing(IF c.intx THEN c.view.events ELSE evs,
                                c.venue_id, c.cands[c.i])}
  IN [c EXCEPT !.existing = rows, !.pc = "write",
               !.missed = IF rows = {} THEN @ \cup {c.i} ELSE @]

(* Mutant: the UPDATE writes back the pinned value the SELECT fetched *)
update_existing_pinned(evs, existing, cand) ==
  {IF \E x \in existing : x.id = e.id
   THEN [e EXCEPT !.time = cand.time, !.cost = cand.cost,
                  !.pinned = (CHOOSE x \in existing : x.id = e.id).pinned]
   ELSE e : e \in evs}

(* Lines 126-137: UPDATE events SET time = ?, cost = ? WHERE id = ? *)
update_existing(evs, existing, cand) ==
  {IF \E x \in existing : x.id = e.id
   THEN [e EXCEPT !.time = cand.time, !.cost = cand.cost]
   ELSE e : e \in evs}

(* Lines 124-155: the UPDATE or the INSERT of one candidate, on the        *)
(* committed tables evs, seq when it opens the transaction.  An INSERT of *)
(* a key that is stored by now breaks UNIQUE (venue_id, date, artists,    *)
(* url): sqlite3.IntegrityError leaves the `with` block, which rolls back *)
write_event(c, evs, seq) ==
  LET base == IF c.intx THEN c.view ELSE [events |-> evs, eseq |-> seq]
      cand == c.cands[c.i]
      next == IF c.i < Len(c.cands) THEN "lookup" ELSE "finish"
  IN IF c.existing # {}
     THEN [c EXCEPT !.intx = TRUE, !.i = @ + 1, !.pc = next,
                    !.view = [base EXCEPT
                                !.events = update_existing(@, c.existing, cand)]]
     ELSE IF Existing(base.events, c.venue_id, cand) # {}
     THEN [c EXCEPT !.intx = FALSE, !.view = Idle.view, !.pc = "done",
                    !.error = "IntegrityError"]
     ELSE [c EXCEPT !.intx = TRUE, !.i = @ + 1, !.pc = next,
                    !.new_count = @ + 1,
                    !.view = [events |-> base.events \cup
                                {[id |-> base.eseq + 1, venue_id |-> c.venue_id,
                                  date |-> cand.date, time |-> cand.time,
                                  artists |-> artists_display(cand.artists),
                                  url |-> cand.url, cost |-> cand.cost,
                                  pinned |-> cand.pinned]},
                              eseq |-> base.eseq + 1]]

(* Lines 157-163: UPDATE venues SET last_scraped, and the commit at the   *)
(* end of the `with` block *)
finish_save(S, c, t) ==
  [store |-> [S EXCEPT
                !.events = c.view.events,
                !.eseq = c.view.eseq,
                !.venues = {IF r.id = c.venue_id
                            THEN [r EXCEPT !.last_scraped = t]
                            ELSE r : r \in S.venues}],
   conn |-> [c EXCEPT !.intx = FALSE, !.view = Idle.view, !.pc = "done"]]

(* Mutant: the UPDATE has no WHERE clause *)
set_pinned_all(S, event_id, flag) ==
  [store |-> [S EXCEPT !.events = {[e EXCEPT !.pinned = flag] : e \in S.events}],
   result |-> \E e \in S.events : e.id = event_id]

(* UPDATE events SET pinned = ? WHERE id = ?; the result is rowcount > 0 *)
set_pinned(S, event_id, flag) ==
  [store |-> [S EXCEPT !.events = {IF e.id = event_id THEN [e EXCEPT !.pinned = flag]
                                   ELSE e : e \in S.events}],
   result |-> \E e \in S.events : e.id = event_id]

pin_event(S, event_id) == set_pinned(S, event_id, TRUE)

unpin_event(S, event_id) == set_pinned(S, event_id, FALSE)

(* Database.is_venue_data_fresh: the venue has a last_scraped timestamp   *)
(* less than cache_hours old *)
is_venue_data_fresh(S, name, cache_hours, t) ==
  \E r \in S.venues : /\ r.name = name
                      /\ r.last_scraped # Null
                      /\ t - r.last_scraped < cache_hours

(* Event.from_dict on the artists column: the inverse of artists_display *)
RECURSIVE artists_split(_)
artists_split(display) ==
  IF Len(display) <= 1 THEN display
  ELSE <<display[1]>> \o artists_split(Tail(Tail(display)))

(* A row of events JOIN venues as the Event object the queries build *)
LoadEvent(e, name) ==
  [venue |-> name, date |-> e.date, time |-> e.time,
   artists |-> artists_split(e.artists), url |-> e.url, cost |-> e.cost,
   pinned |-> e.pinned, id |-> e.id]

(* A set of Event objects as the list ORDER BY date, time gives (SQLite   *)
(* puts NULL first); rows equal in both come in id order *)
RECURSIVE OrderByDateTime(_)
OrderByDateTime(evs) ==
  IF evs = {} THEN <<>>
  ELSE LET first == CHOOSE e \in evs : \A o \in evs :
                      \/ e.date < o.date
                      \/ e.date = o.date /\ e.time < o.time
                      \/ e.date = o.date /\ e.time = o.time /\ e.id <= o.id
       IN <<first>> \o OrderByDateTime(evs \ {first})

(* date('now') is Today(t).  Rows equal in the ORDER BY columns come in   *)
(* id order. *)
JoinedEvents(S, today) ==
  {LoadEvent(e, (CHOOSE r \in S.venues : r.id = e.venue_id).name) :
     e \in {x \in S.events : /\ \E r \in S.venues : r.id = x.venue_id
                             /\ x.date >= today}}

(* Database.get_pinned_events *)
get_pinned_events(S, today) ==
  OrderByDateTime({e \in JoinedEvents(S, today) : e.pinned})

(* Database.get_recent_events: ORDER BY pinned DESC, date, time LIMIT ?    *)
get_recent_events(S, limit, today) ==
  LET all == OrderByDateTime({e \in JoinedEvents(S, today) : e.pinned})
               \o OrderByDateTime({e \in JoinedEvents(S, today) : ~e.pinned})
  IN SubSeq(all, 1, IF Len(all) < limit THEN Len(all) ELSE limit)

(* Database.get_cached_events_for_venue: the events joined to the venue   *)
(* row of that name *)
get_cached_events_for_venue(S, name) ==
  OrderByDateTime({LoadEvent(e, name) : e \in {x \in S.events :
                     \E r \in S.venues : r.name = name /\ r.id = x.venue_id}})

(* --------------------------- storage/cache.py ------------------------- *)
(* The page cache: rows (venue, url, content, ts).  The only URL fetched  *)
(* is the venue's calendar URL, which the configuration fixes per venue.  *)
calendar_url(name) == <<name, "/calendar/">>

cache_get(C, venue, url, t) ==
  IF \E r \in C : r.venue = venue /\ r.url = url /\ t - r.ts < CacheHours
  THEN (CHOOSE r \in C : r.venue = venue /\ r.url = url).content
  ELSE ""

cache_set(C, venue, url, content, t) ==
  {r \in C : ~(r.venue = venue /\ r.url = url)}
    \cup {[venue |-> venue, url |-> url, content |-> content, ts |-> t]}

(* ----------------------------- page texts ----------------------------- *)
(* A text is the sequence of its characters; NoText is None (the element  *)
(* searched for is not in the container).                                 *)
NoText == <<"None">>

DigitChars == <<"0", "1", "2", "3", "4", "5", "6", "7", "8", "9">>

IsDigit(c) == \E d \in 1..10 : DigitChars[d] = c

DigitVal(c) == (CHOOSE d \in 1..10 : DigitChars[d] = c) - 1

(* str(n) for 0 <= n <= 99 *)
Str(n) ==
  IF n < 10 THEN <<DigitChars[n + 1]>>
  ELSE <<DigitChars[(n \div 10) + 1], DigitChars[(n % 10) + 1]>>

(* "%02d" % n *)
Str2(n) == <<DigitChars[(n \div 10) + 1], DigitChars[(n % 10) + 1]>>

(* str.strip() *)
RECURSIVE strip(_)
strip(text) ==
  IF text = <<>> THEN <<>>
  ELSE IF Head(text) = " " THEN strip(Tail(text))
  ELSE IF text[Len(text)] = " " THEN strip(SubSeq(text, 1, Len(text) - 1))
  ELSE text

(* text[i..] starts with pat *)
occurs_at(text, pat, i) ==
  /\ i + Len(pat) - 1 <= Len(text)
  /\ SubSeq(text, i, i + Len(pat) - 1) = pat

(* str.find(pat) + 1: the first position where pat occurs, 0 when none *)
find(text, pat) ==
  IF \E i \in 1..Len(text) : occurs_at(text, pat, i)
  THEN CHOOSE i \in 1..Len(text) :
         occurs_at(text, pat, i) /\ \A j \in 1..(i - 1) : ~occurs_at(text, pat, j)
  ELSE 0

(* str.split(sep) *)
RECURSIVE split(_, _)
split(text, sep) ==
  IF find(text, sep) # 0
  THEN <<SubSeq(text, 1, find(text, sep) - 1)>>
         \o split(SubSeq(text, find(text, sep) + Len(sep), Len(text)), sep)
  ELSE <<text>>

LowerChars == <<"a", "b", "c", "d", "e", "f", "g", "h", "i", "j", "k", "l", "m",
                "n", "o", "p", "q", "r", "s", "t", "u", "v", "w", "x", "y", "z">>
UpperChars == <<"A", "B", "C", "D", "E", "F", "G", "H", "I", "J", "K", "L", "M",
                "N", "O", "P", "Q", "R", "S", "T", "U", "V", "W", "X", "Y", "Z">>

(* str.lower() and str.upper() of one character *)
lower(c) ==
  IF \E i \in 1..26 : UpperChars[i] = c
  THEN LowerChars[CHOOSE i \in 1..26 : UpperChars[i] = c]
  ELSE c

upper(c) ==
  IF \E i \in 1..26 : LowerChars[i] = c
  THEN UpperChars[CHOOSE i \in 1..26 : LowerChars[i] = c]
  ELSE c

(* int(text) succeeds: decimal digits, surrounding blanks allowed *)
IsInt(text) ==
  /\ strip(text) # <<>>
  /\ \A i \in 1..Len(strip(text)) : IsDigit(strip(text)[i])

RECURSIVE DigitsVal(_)
DigitsVal(ds) ==
  IF ds = <<>> THEN 0
  ELSE 10 * DigitsVal(SubSeq(ds, 1, Len(ds) - 1)) + DigitVal(ds[Len(ds)])

int(text) == DigitsVal(strip(text))

(* --------------------------- scrapers/base.py ------------------------- *)
(* What one HTTP GET can bring: a page, or a requests.RequestException    *)
(* (connection error or timeout from requests.get, HTTPError from         *)
(* raise_for_status).  "" is the empty body, "bad" a page the parser      *)
(* raises on, "p1" and "p2" list the same event with another time, cost.  *)
Pages == {"", "p1", "p2", "bad"}
Failures == {"network", "timeout", "http_status"}
Responses == [kind : {"ok"}, content : Pages] \cup [kind : Failures, content : {""}]
Nets == [1..MaxAttempts -> Responses]

RECURSIVE Pow2(_)
Pow2(n) == IF n = 0 THEN 1 ELSE 2 * Pow2(n - 1)

(* Mutant: the loop gives up one attempt early *)
RECURSIVE fetch_loop_short(_, _, _, _, _, _, _)
fetch_loop_short(C, venue, url, net, t, attempt, sleeps) ==
  LET response == net[attempt + 1] IN
  IF response.kind = "ok"
  THEN [raised |-> FALSE, content |-> response.content,
        cache |-> cache_set(C, venue, url, response.content, t),
        gets |-> attempt + 1, sleeps |-> sleeps]
  ELSE IF attempt = MaxAttempts - 2
  THEN [raised |-> TRUE, content |-> "", cache |-> C,
        gets |-> attempt + 1, sleeps |-> sleeps]
  ELSE fetch_loop_short(C, venue, url, net, t, attempt + 1,
                        Append(sleeps, Pow2(attempt)))

(* The retry loop of fetch_page from `attempt` on (0-based, as range(3)) *)
RECURSIVE fetch_loop(_, _, _, _, _, _, _)
fetch_loop(C, venue, url, net, t, attempt, sleeps) ==
  LET response == net[attempt + 1] IN
  IF response.kind = "ok"
  THEN [raised |-> FALSE, content |-> response.content,
        cache |-> cache_set(C, venue, url, response.content, t),
        gets |-> attempt + 1, sleeps |-> sleeps]
  ELSE IF attempt = MaxAttempts - 1
  THEN [raised |-> TRUE, content |-> "", cache |-> C,
        gets |-> attempt + 1, sleeps |-> sleeps]
  ELSE fetch_loop(C, venue, url, net, t, attempt + 1, Append(sleeps, Pow2(attempt)))

(* BaseScraper.fetch_page: `if cached_content` is false for None and ""   *)
fetch_page(C, venue, url, net, t) ==
  LET cached_content == cache_get(C, venue, url, t) IN
  IF cached_content # ""
  THEN [raised |-> FALSE, content |-> cached_content, cache |-> C,
        gets |-> 0, sleeps |-> <<>>]
  ELSE fetch_loop(C, venue, url, net, t, 0, <<>>)

(* parse_events of the venue's scraper on a page *)
parse_events(venue, content) ==
  IF content = "bad" THEN [raised |-> TRUE, events |-> <<>>]
  ELSE IF content = "p1"
  THEN [raised |-> FALSE, events |-> <<Event(venue, <<"A">>, 20, "$5", FALSE)>>]
  ELSE IF content = "p2"
  THEN [raised |-> FALSE, events |-> <<Event(venue, <<"A">>, Null, NoCost, FALSE)>>]
  ELSE [raised |-> FALSE, events |-> <<>>]

(* Mutant: get_events without its try/except *)
get_events_raising(C, venue, net, t) ==
  LET f == fetch_page(C, venue, calendar_url(venue), net, t)
      p == parse_events(venue, f.content)
  IN [raised |-> f.raised \/ p.raised,
      events |-> IF f.raised \/ p.raised THEN <<>> ELSE p.events,
      caught |-> FALSE,
      parsed |-> ~f.raised,
      cache |-> f.cache, gets |-> f.gets]

(* BaseScraper.parse_time_ampm.  The pattern (\d{1,2}):?(\d{2})?\s*(pm|am) *)
(* is tried from every position of the text, left to right; at a         *)
(* position the choices are tried in the order of the regex engine: two   *)
(* hour digits before one, the colon taken before skipped, the minutes    *)
(* taken before skipped.                                                  *)
pattern_choices ==
  <<<<2, TRUE, TRUE>>, <<2, TRUE, FALSE>>, <<2, FALSE, TRUE>>, <<2, FALSE, FALSE>>,
    <<1, TRUE, TRUE>>, <<1, TRUE, FALSE>>, <<1, FALSE, TRUE>>, <<1, FALSE, FALSE>>>>

(* The number of blanks of text from position p on *)
RECURSIVE blanks(_, _)
blanks(text, p) ==
  IF p <= Len(text) /\ text[p] = " " THEN 1 + blanks(text, p + 1) ELSE 0

(* The match at position s under choice c, when there is one *)
match_at(text, s, c) ==
  LET n == Len(text)
      p1 == s + c[1]
      p2 == IF c[2] THEN p1 + 1 ELSE p1
      p3 == IF c[3] THEN p2 + 2 ELSE p2
      p4 == p3 + blanks(text, p3)
  IN IF /\ p1 - 1 <= n
        /\ \A i \in s..(p1 - 1) : IsDigit(text[i])
        /\ c[2] => (p1 <= n /\ text[p1] = ":")
        /\ c[3] => (p2 + 1 <= n /\ IsDigit(text[p2]) /\ IsDigit(text[p2 + 1]))
        /\ p4 + 1 <= n
        /\ lower(text[p4]) \in {"a", "p"}
        /\ lower(text[p4 + 1]) = "m"
     THEN [ok |-> TRUE,
           group1 |-> SubSeq(text, s, p1 - 1),
           group2 |-> IF c[3] THEN SubSeq(text, p2, p2 + 1) ELSE NoText,
           group3 |-> <<text[p4], text[p4 + 1]>>]
     ELSE [ok |-> FALSE]

(* re.search(time_pattern, time_text, re.IGNORECASE) *)
re_search(text) ==
  LET hits == {h \in (1..Len(text)) \X (1..Len(pattern_choices)) :
                 match_at(text, h[1], pattern_choices[h[2]]).ok}
  IN IF hits = {} THEN [ok |-> FALSE]
     ELSE LET h == CHOOSE x \in hits : \A y \in hits :
                     x[1] < y[1] \/ (x[1] = y[1] /\ x[2] <= y[2])
          IN match_at(text, h[1], pattern_choices[h[2]])

(* Mutant: 12 pm is moved on by twelve hours as well *)
to_24_hour_all(hour, am_pm) ==
  IF am_pm = "pm" THEN hour + 12
  ELSE IF am_pm = "am" /\ hour = 12 THEN 0
  ELSE hour

(* The conversion of parse_time_ampm *)
to_24_hour(hour, am_pm) ==
  IF am_pm = "pm" /\ hour # 12 THEN hour + 12
  ELSE IF am_pm = "am" /\ hour = 12 THEN 0
  ELSE hour

(* Mutant: the ValueError of dt_time is not caught *)
parse_time_ampm_raising(time_text) ==
  CHOOSE x \in
    {IF ~m.ok THEN [raised |-> FALSE, time |-> Null]
     ELSE LET am_pm == IF lower(m.group3[1]) = "p" THEN "pm" ELSE "am"
              hour == to_24_hour(int(m.group1), am_pm)
              minute == IF m.group2 = NoText THEN 0 ELSE int(m.group2)
          IN IF hour \in 0..23 /\ minute \in 0..59
             THEN [raised |-> FALSE, time |-> hour * 100 + minute]
             ELSE [raised |-> TRUE, time |-> Null] :
       m \in {re_search(time_text)}} : TRUE

(* BaseScraper.parse_time_ampm; a time of day is hour * 100 + minute,     *)
(* None is Null                                                           *)
parse_time_ampm(time_text) ==
  CHOOSE x \in
    {IF ~m.ok THEN [raised |-> FALSE, time |-> Null]
     ELSE LET am_pm == IF lower(m.group3[1]) = "p" THEN "pm" ELSE "am"
              hour == to_24_hour(int(m.group1), am_pm)
              minute == IF m.group2 = NoText THEN 0 ELSE int(m.group2)
          IN IF hour \in 0..23 /\ minute \in 0..59
             THEN [raised |-> FALSE, time |-> hour * 100 + minute]
             ELSE [raised |-> FALSE, time |-> Null] :
       m \in {re_search(time_text)}} : TRUE

(* BaseScraper.clean_artist_names.  EmDash is the em dash character. *)
EmDash == "em-dash"

(* re.sub('".*?"', "", text): every quoted stretch is removed *)
RECURSIVE remove_quoted(_)
remove_quoted(text) ==
  LET i == find(text, <<"\"">>)
      rest == SubSeq(text, i + 1, Len(text))
      j == find(rest, <<"\"">>)
  IN IF i = 0 THEN text
     ELSE IF j = 0 THEN text
     ELSE SubSeq(text, 1, i - 1) \o remove_quoted(SubSeq(rest, j + 1, Len(rest)))

(* re.sub("<em dash>.*$", "", text) *)
remove_after_dash(text) ==
  IF find(text, <<EmDash>>) = 0 THEN text
  ELSE SubSeq(text, 1, find(text, <<EmDash>>) - 1)

(* re.sub("-.*tour.*$", "", text, re.IGNORECASE): the flag is passed as   *)
(* the count argument, so the match is case-sensitive; the text is cut at *)
(* the first hyphen that has "tour" somewhere after it                    *)
remove_tour(text) ==
  LET hits == {i \in 1..Len(text) :
                 /\ text[i] = "-"
                 /\ find(SubSeq(text, i + 1, Len(text)), <<"t", "o", "u", "r">>) # 0}
  IN IF hits = {} THEN text
     ELSE SubSeq(text, 1, (CHOOSE i \in hits : \A j \in hits : i <= j) - 1)

SeparatorList == <<<<",">>, <<"&">>, <<" ", "A", "N", "D", " ">>,
                   <<" ", "W", "I", "T", "H", " ">>, <<",", " ">>>>

(* [p.upper() for p in parts if p.strip()] with parts stripped *)
RECURSIVE upper_parts(_)
upper_parts(parts) ==
  IF parts = <<>> THEN <<>>
  ELSE (IF strip(Head(parts)) = <<>> THEN <<>>
        ELSE <<[i \in 1..Len(strip(Head(parts))) |-> upper(strip(Head(parts))[i])]>>)
       \o upper_parts(Tail(parts))

clean_artist_names(artist_text) ==
  IF artist_text = <<>> THEN <<>>
  ELSE
    LET text == strip(remove_tour(remove_after_dash(remove_quoted(artist_text))))
        seps == {k \in 1..Len(SeparatorList) : find(text, SeparatorList[k]) # 0}
    IN IF text = <<>> THEN <<>>
       ELSE IF seps # {}
       THEN upper_parts(split(text, SeparatorList[CHOOSE k \in seps : \A j \in seps : k <= j]))
       ELSE upper_parts(<<text>>)

(* ------------------------ scrapers/brick_mortar.py -------------------- *)
(* date(year, month, day) does not raise ValueError *)
IsDate(year, month, day) ==
  /\ month \in 1..12
  /\ day >= 1
  /\ day <= (IF month \in {4, 6, 9, 11} THEN 30
             ELSE IF month # 2 THEN 31
             ELSE IF ((year % 4) = 0 /\ (year % 100) # 0) \/ (year % 400) = 0
             THEN 29 ELSE 28)

(* Mutant: the current month too is taken to be next year's *)
extract_date_le(date_text, today) ==
  IF date_text = NoText THEN Null
  ELSE
    LET text == strip(date_text)
        parts == split(text, <<".">>)
    IN IF \A i \in 1..Len(text) : text[i] # "." THEN Null
       ELSE IF Len(parts) # 2 THEN Null
       ELSE IF ~IsInt(parts[1]) \/ ~IsInt(parts[2]) THEN Null
       ELSE
         LET month == int(parts[1])
             day == int(parts[2])
             current_month == (today \div 100) % 100
             current_year == IF month <= current_month
                             THEN (today \div 10000) + 1
                             ELSE today \div 10000
         IN IF IsDate(current_year, month, day)
            THEN current_year * 10000 + month * 100 + day
            ELSE Null

(* BrickMortarScraper._extract_date on the text of the tw-event-date span *)
(* ("8.20"), with datetime.now() on the day `today`; None is Null         *)
extract_date(date_text, today) ==
  IF date_text = NoText THEN Null
  ELSE
    LET text == strip(date_text)
        parts == split(text, <<".">>)
    IN IF \A i \in 1..Len(text) : text[i] # "." THEN Null
       ELSE IF Len(parts) # 2 THEN Null
       ELSE IF ~IsInt(parts[1]) \/ ~IsInt(parts[2]) THEN Null
       ELSE
         LET month == int(parts[1])
             day == int(parts[2])
             current_month == (today \div 100) % 100
             current_year == IF month < current_month
                             THEN (today \div 10000) + 1
                             ELSE today \div 10000
         IN IF IsDate(current_year, month, day)
            THEN current_year * 10000 + month * 100 + day
            ELSE Null

(* A tw-cal-event-popup container of the page, by what its elements hold: *)
(* date, time: the text of the tw-event-date and tw-event-time-complete   *)
(* spans (NoText: no such span); name: the text of the link in tw-name;   *)
(* href: its href (NoHref: no link with one); cost: what _extract_cost    *)
(* finds; raises: an extraction on this container raises an exception.    *)
NoHref == "None"

extract_time(c) ==
  IF c.time = NoText THEN Null ELSE parse_time_ampm(strip(c.time)).time

extract_artists(c) ==
  IF c.name = NoText THEN <<>> ELSE clean_artist_names(strip(c.name))

(* Mutant: a container without artists is not rejected *)
parse_single_event_any(venue, c, today) ==
  IF c.raises THEN <<>>
  ELSE IF extract_date(c.date, today) = Null THEN <<>>
  ELSE IF c.href = NoHref \/ c.href = "" THEN <<>>
  ELSE <<[venue |-> venue, date |-> extract_date(c.date, today),
          time |-> extract_time(c), artists |-> extract_artists(c),
          url |-> c.href, cost |-> c.cost, pinned |-> FALSE, id |-> 0]>>

(* BrickMortarScraper._parse_single_event: the list of the event it       *)
(* returns, empty for None (a missing date, artist list or URL, or an     *)
(* exception, which is caught)                                            *)
parse_single_event(venue, c, today) ==
  IF c.raises THEN <<>>
  ELSE IF extract_date(c.date, today) = Null THEN <<>>
  ELSE IF extract_artists(c) = <<>> THEN <<>>
  ELSE IF c.href = NoHref \/ c.href = "" THEN <<>>
  ELSE <<[venue |-> venue, date |-> extract_date(c.date, today),
          time |-> extract_time(c), artists |-> extract_artists(c),
          url |-> c.href, cost |-> c.cost, pinned |-> FALSE, id |-> 0]>>

(* Mutant: the loop ends at the first container that gives no event *)
RECURSIVE parse_containers_abort(_, _, _)
parse_containers_abort(venue, containers, today) ==
  IF containers = <<>> THEN <<>>
  ELSE IF parse_single_event(venue, Head(containers), today) = <<>> THEN <<>>
  ELSE parse_single_event(venue, Head(containers), today)
         \o parse_containers_abort(venue, Tail(containers), today)

(* BrickMortarScraper.parse_events on the containers of a page, in        *)
(* document order                                                         *)
RECURSIVE parse_containers(_, _, _)
parse_containers(venue, containers, today) ==
  IF containers = <<>> THEN <<>>
  ELSE parse_single_event(venue, Head(containers), today)
         \o parse_containers(venue, Tail(containers), today)

(* ------------------------ scrapers/neck_woods.py ---------------------- *)
(* The dictionary of BaseScraper.month_name_to_number *)
MonthTable ==
  <<<<<<"j", "a", "n", "u", "a", "r", "y">>, 1>>,
    <<<<"j", "a", "n">>, 1>>,
    <<<<"f", "e", "b", "r", "u", "a", "r", "y">>, 2>>,
    <<<<"f", "e", "b">>, 2>>,
    <<<<"m", "a", "r", "c", "h">>, 3>>,
    <<<<"m", "a", "r">>, 3>>,
    <<<<"a", "p", "r", "i", "l">>, 4>>,
    <<<<"a", "p", "r">>, 4>>,
    <<<<"m", "a", "y">>, 5>>,
    <<<<"j", "u", "n", "e">>, 6>>,
    <<<<"j", "u", "n">>, 6>>,
    <<<<"j", "u", "l", "y">>, 7>>,
    <<<<"j", "u", "l">>, 7>>,
    <<<<"a", "u", "g", "u", "s", "t">>, 8>>,
    <<<<"a", "u", "g">>, 8>>,
    <<<<"s", "e", "p", "t", "e", "m", "b", "e", "r">>, 9>>,
    <<<<"s", "e", "p">>, 9>>,
    <<<<"s", "e", "p", "t">>, 9>>,
    <<<<"o", "c", "t", "o", "b", "e", "r">>, 10>>,
    <<<<"o", "c", "t">>, 10>>,
    <<<<"n", "o", "v", "e", "m", "b", "e", "r">>, 11>>,
    <<<<"n", "o", "v">>, 11>>,
    <<<<"d", "e", "c", "e", "m", "b", "e", "r">>, 12>>,
    <<<<"d", "e", "c">>, 12>>>>

(* BaseScraper.month_name_to_number: months.get(month_name.lower()),      *)
(* 0 for None                                                             *)
month_name_to_number(month_name) ==
  LET key == [i \in 1..Len(month_name) |-> lower(month_name[i])]
      hits == {k \in 1..Len(MonthTable) : MonthTable[k][1] = key}
  IN IF hits = {} THEN 0 ELSE MonthTable[CHOOSE k \in hits : TRUE][2]

(* \w and \s on the characters of the page texts *)
IsWord(c) == IsDigit(c) \/ c = "_" \/ lower(c) \in Range(LowerChars)

IsSpace(c) == c = " "

(* text[a..b] is made of digits (\d), of word characters (\w), of spaces *)
(* (\s); a position after the end of the text matches nothing            *)
AllDigit(text, a, b) == \A j \in a..b : j <= Len(text) /\ IsDigit(text[j])

AllWord(text, a, b) == \A j \in a..b : j <= Len(text) /\ IsWord(text[j])

AllSpace(text, a, b) == \A j \in a..b : j <= Len(text) /\ IsSpace(text[j])

(* The groups of the match of (\w{3}),?\s+(\w{3})\s+(\d{1,2}) that starts *)
(* at s, as a set (empty: no match).  m is where the month starts, d      *)
(* where the day starts, n its length (two digits when there are two).    *)
day_month_at(text, s) ==
  UNION {UNION {{<<SubSeq(text, s, s + 2), SubSeq(text, m, m + 2),
                   SubSeq(text, d, d + n - 1)>> :
                   n \in {x \in {1, 2} :
                            /\ AllDigit(text, d, d + x - 1)
                            /\ x = 1 => ~AllDigit(text, d + 1, d + 1)}} :
                d \in {x \in (m + 4)..Len(text) :
                         AllSpace(text, m + 3, x - 1)}} :
         m \in {x \in (s + 4)..Len(text) :
                  /\ AllWord(text, s, s + 2)
                  /\ AllWord(text, x, x + 2)
                  /\ \/ AllSpace(text, s + 3, x - 1)
                     \/ /\ x >= s + 5
                        /\ text[s + 3] = ","
                        /\ AllSpace(text, s + 4, x - 1)}}

(* ... of (\w{3})\.(\d{2})\.(\d{4}) *)
dotted_at(text, s) ==
  IF /\ s + 10 <= Len(text)
     /\ AllWord(text, s, s + 2)
     /\ text[s + 3] = "."
     /\ AllDigit(text, s + 4, s + 5)
     /\ text[s + 6] = "."
     /\ AllDigit(text, s + 7, s + 10)
  THEN {<<SubSeq(text, s, s + 2), SubSeq(text, s + 4, s + 5),
          SubSeq(text, s + 7, s + 10)>>}
  ELSE {}

(* ... of (\w+)\s+(\d{1,2}),?\s+(\d{4}).  e is where the first word ends, *)
(* d where the day starts, n its length, y where the year starts.         *)
month_day_year_at(text, s) ==
  UNION {UNION {UNION {{<<SubSeq(text, s, e), SubSeq(text, d, d + n - 1),
                          SubSeq(text, y, y + 3)>> :
                          y \in {x \in (d + n + 1)..Len(text) :
                                   /\ AllDigit(text, x, x + 3)
                                   /\ \/ AllSpace(text, d + n, x - 1)
                                      \/ /\ x >= d + n + 2
                                         /\ text[d + n] = ","
                                         /\ AllSpace(text, d + n + 1, x - 1)}} :
                       n \in {x \in {1, 2} : AllDigit(text, d, d + x - 1)}} :
                d \in {x \in (e + 2)..Len(text) : AllSpace(text, e + 1, x - 1)}} :
         e \in {x \in s..Len(text) : AllWord(text, s, x)}}

date_pattern_at(k, text, s) ==
  IF k = 1 THEN day_month_at(text, s)
  ELSE IF k = 2 THEN dotted_at(text, s)
  ELSE month_day_year_at(text, s)

(* re.search(date_patterns[k], text, re.IGNORECASE).groups(): the groups  *)
(* of the match that starts leftmost, as a set (empty: no match)          *)
date_search(k, text) ==
  UNION {IF starts = {} THEN {}
         ELSE date_pattern_at(k, text, CHOOSE s \in starts : \A o \in starts : s <= o) :
           starts \in {{x \in 1..Len(text) : date_pattern_at(k, text, x) # {}}}}

(* The date of (year, month, day), Null where date() raises ValueError *)
make_date(year, month, day) ==
  IF IsDate(year, month, day) THEN year * 10000 + month * 100 + day ELSE Null

(* The body of the loop of _extract_date for the groups of a match of     *)
(* pattern k: the date it returns, Null when the loop goes on to the next *)
(* pattern.  Only the second pattern has a "." in it; a last group of     *)
(* four digits is a year.                                                 *)
date_of_groups(k, parts, today) ==
  IF k = 2
  THEN IF month_name_to_number(parts[1]) = 0 THEN Null
       ELSE make_date(int(parts[3]), month_name_to_number(parts[1]), int(parts[2]))
  ELSE IF Len(parts[3]) = 4
  THEN IF month_name_to_number(parts[1]) = 0 THEN Null
       ELSE make_date(int(parts[3]), month_name_to_number(parts[1]), int(parts[2]))
  ELSE IF month_name_to_number(parts[2]) = 0 THEN Null
       ELSE make_date(today \div 10000, month_name_to_number(parts[2]), int(parts[3]))

(* The dates the loop finds, by pattern: <<k, date>> *)
dates_found(text, today) ==
  {x \in UNION {{<<k, date_of_groups(k, parts, today)>> :
                   parts \in date_search(k, text)} : k \in 1..3} : x[2] # Null}

(* NeckOfTheWoodsScraper._extract_date on the text of an element, with    *)
(* datetime.now() on the day `today`: the date of the first pattern that  *)
(* gives one; None is Null                                                *)
neck_extract_date(text, today) ==
  CHOOSE d \in
    {IF found = {} THEN Null
     ELSE (CHOOSE x \in found : \A o \in found : x[1] <= o[1])[2] :
       found \in {dates_found(text, today)}} : TRUE

(* BaseScraper.get_events: any exception of fetch or parse gives []       *)
get_events(C, venue, net, t) ==
  LET f == fetch_page(C, venue, calendar_url(venue), net, t)
      p == parse_events(venue, f.content)
  IN [raised |-> FALSE,
      events |-> IF f.raised \/ p.raised THEN <<>> ELSE p.events,
      caught |-> f.raised \/ p.raised,
      parsed |-> ~f.raised,
      cache |-> f.cache, gets |-> f.gets]

(* -------------------------- music_calendar.py ------------------------- *)
DaysInMonth(y, m) ==
  IF m \in {4, 6, 9, 11} THEN 30
  ELSE IF m # 2 THEN 31
  ELSE IF ((y % 4) = 0 /\ (y % 100) # 0) \/ (y % 400) = 0 THEN 29 ELSE 28

NextDay(d) ==
  LET y == d \div 10000
      m == (d \div 100) % 100
      day == d % 100
  IN IF day < DaysInMonth(y, m) THEN d + 1
     ELSE IF m < 12 THEN y * 10000 + (m + 1) * 100 + 1
     ELSE (y + 1) * 10000 + 101

(* d + timedelta(days=n), a month at a time *)
RECURSIVE AddDays(_, _)
AddDays(d, n) ==
  LET left == DaysInMonth(d \div 10000, (d \div 100) % 100) - (d % 100)
  IN IF n <= left THEN d + n
     ELSE AddDays(NextDay(d + left), n - left - 1)

(* date.today() at clock value t *)
Today(t) == AddDays(Epoch, t \div 24)

(* first-of-month date + relativedelta(months=k) *)
AddMonths(d, k) ==
  LET months == (d \div 10000) * 12 + (((d \div 100) % 100) - 1) + k
  IN (months \div 12) * 10000 + ((months % 12) + 1) * 100 + 1

(* Mutant: the window ends at the start of the next month *)
get_current_and_next_month_range_one(today) ==
  LET current_month_start == (today \div 100) * 100 + 1
  IN <<current_month_start, AddMonths(current_month_start, 1)>>

get_current_and_next_month_range(today) ==
  LET current_month_start == (today \div 100) * 100 + 1
  IN <<current_month_start, AddMonths(current_month_start, 2)>>

InWindow(e, today) ==
  LET range == get_current_and_next_month_range(today)
  IN e.date >= today /\ range[1] <= e.date /\ e.date < range[2]

filter_events_by_date(evs, today) ==
  SelectSeq(evs, LAMBDA e : InWindow(e, today))

(* Mutant: an empty scrape marks the venue as scraped *)
scrape_venue_marking(S, C, name, force_refresh, net, t) ==
  LET s1 == CHOOSE x \in {save_venue(S, name).store} : TRUE IN
  IF ~force_refresh /\ is_venue_data_fresh(s1, name, CacheHours, t)
  THEN [raised |-> FALSE, store |-> s1, cache |-> C, fetched |-> FALSE,
        parsed |-> FALSE, caught |-> FALSE, gets |-> 0, scraped |-> <<>>,
        events |-> filter_events_by_date(get_cached_events_for_venue(s1, name), Today(t))]
  ELSE
    LET g == CHOOSE x \in {get_events(C, name, net, t)} : TRUE IN
    IF g.raised
    THEN [raised |-> TRUE, store |-> s1, cache |-> g.cache, fetched |-> TRUE,
          parsed |-> g.parsed, caught |-> g.caught, gets |-> g.gets,
          scraped |-> <<>>, events |-> <<>>]
    ELSE IF g.events # <<>>
    THEN LET sv == CHOOSE x \in {save_events(s1, g.events, t)} : TRUE IN
         [raised |-> sv.raised, store |-> sv.store, cache |-> g.cache, fetched |-> TRUE,
          parsed |-> g.parsed, caught |-> g.caught, gets |-> g.gets,
          scraped |-> g.events,
          events |-> filter_events_by_date(g.events, Today(t))]
    ELSE [raised |-> FALSE,
          store |-> [s1 EXCEPT !.venues = {IF r.name = name
                                           THEN [r EXCEPT !.last_scraped = t]
                                           ELSE r : r \in s1.venues}],
          cache |-> g.cache, fetched |-> TRUE,
          parsed |-> g.parsed, caught |-> g.caught, gets |-> g.gets,
          scraped |-> g.events,
          events |-> filter_events_by_date(get_cached_events_for_venue(s1, name), Today(t))]

(* CalendarDisplay.scrape_venue *)
scrape_venue(S, C, name, force_refresh, net, t) ==
  LET s1 == CHOOSE x \in {save_venue(S, name).store} : TRUE IN
  IF ~force_refresh /\ is_venue_data_fresh(s1, name, CacheHours, t)
  THEN [raised |-> FALSE, store |-> s1, cache |-> C, fetched |-> FALSE,
        parsed |-> FALSE, caught |-> FALSE, gets |-> 0, scraped |-> <<>>,
        events |-> filter_events_by_date(get_cached_events_for_venue(s1, name), Today(t))]
  ELSE
    LET g == CHOOSE x \in {get_events(C, name, net, t)} : TRUE IN
    IF g.raised
    THEN [raised |-> TRUE, store |-> s1, cache |-> g.cache, fetched |-> TRUE,
          parsed |-> g.parsed, caught |-> g.caught, gets |-> g.gets,
          scraped |-> <<>>, events |-> <<>>]
    ELSE IF g.events # <<>>
    THEN LET sv == CHOOSE x \in {save_events(s1, g.events, t)} : TRUE IN
         [raised |-> sv.raised, store |-> sv.store, cache |-> g.cache, fetched |-> TRUE,
          parsed |-> g.parsed, caught |-> g.caught, gets |-> g.gets,
          scraped |-> g.events,
          events |-> filter_events_by_date(g.events, Today(t))]
    ELSE [raised |-> FALSE, store |-> s1, cache |-> g.cache, fetched |-> TRUE,
          parsed |-> g.parsed, caught |-> g.caught, gets |-> g.gets,
          scraped |-> g.events,
          events |-> filter_events_by_date(get_cached_events_for_venue(s1, name), Today(t))]

(* The loop of scrape_all_venues over the configured venues from the      *)
(* i-th on; an exception of scrape_venue ends the run.  (The lists        *)
(* cached_venues and scraped_venues it fills are never read.)             *)
RECURSIVE scrape_loop(_, _, _, _, _)
scrape_loop(acc, i, force_refresh, nets, t) ==
  IF acc.raised \/ i > Len(VENUES_CONFIG) THEN acc
  ELSE
    LET name == VENUES_CONFIG[i]
        r == CHOOSE x \in {scrape_venue(acc.store, acc.cache, name,
                                        force_refresh, nets[name], t)} : TRUE
        next == CHOOSE x \in {
                  IF r.raised
                  THEN [acc EXCEPT !.raised = TRUE, !.store = r.store, !.cache = r.cache]
                  ELSE [acc EXCEPT !.store = r.store, !.cache = r.cache,
                          !.all_events = acc.all_events \o r.events,
                          !.venue_stats = acc.venue_stats @@ (name :> Len(r.events)),
                          !.caught = acc.caught \cup (IF r.caught THEN {name} ELSE {})]
                } : TRUE
    IN scrape_loop(next, i + 1, force_refresh, nets, t)

(* CalendarDisplay.scrape_all_venues *)
scrape_all_venues(S, C, force_refresh, nets, t) ==
  scrape_loop([raised |-> FALSE, store |-> S, cache |-> C, all_events |-> <<>>,
               venue_stats |-> <<>>, caught |-> {}], 1, force_refresh, nets, t)

(* The sort key of display_calendar: (e.date, e.time or datetime.min.time(), *)
(* e.id or 0); a missing time counts as 00:00, a missing id as 0          *)
sort_key(e) == <<e.date, IF e.time = Null THEN 0 ELSE e.time, e.id>>

(* Tuple comparison a <= b of two sort keys *)
key_le(a, b) ==
  \/ a[1] < b[1]
  \/ a[1] = b[1] /\ a[2] < b[2]
  \/ a[1] = b[1] /\ a[2] = b[2] /\ a[3] <= b[3]

(* list.sort(key=...): stable, elements of equal key keep their order *)
RECURSIVE list_sort(_)
list_sort(evs) ==
  IF evs = <<>> THEN <<>>
  ELSE LET n == Len(evs)
           front == list_sort(SubSeq(evs, 1, n - 1))
           k == Cardinality({i \in 1..(n - 1) : key_le(sort_key(front[i]), sort_key(evs[n]))})
       IN SubSeq(front, 1, k) \o <<evs[n]>> \o SubSeq(front, k + 1, n - 1)

(* CalendarDisplay.display_calendar: the list it hands to the terminal    *)
(* (nothing is shown when no event was found)                             *)
display_calendar(S, C, force_refresh, nets, t) ==
  CHOOSE x \in
    {[raised |-> r.raised, store |-> r.store, cache |-> r.cache,
      all_events |-> r.all_events,
      shown |-> IF r.raised \/ r.all_events = <<>> THEN <<>>
                ELSE list_sort(r.all_events)] :
       r \in {scrape_all_venues(S, C, force_refresh, nets, t)}} : TRUE

(* ------------------------------- cli.py ------------------------------- *)
(* The sort key of get_event_by_number:                                   *)
(* (not e.pinned, e.date, e.time or datetime.min.time())                  *)
number_key(e) ==
  <<IF e.pinned THEN 0 ELSE 1, e.date, IF e.time = Null THEN 0 ELSE e.time>>

(* list.sort(key=...) with that key: stable *)
RECURSIVE number_sort(_)
number_sort(evs) ==
  IF evs = <<>> THEN <<>>
  ELSE CHOOSE x \in
         UNION {{SubSeq(front, 1, k) \o <<evs[Len(evs)]>>
                   \o SubSeq(front, k + 1, Len(front)) :
                   k \in {Cardinality({i \in 1..Len(front) :
                            key_le(number_key(front[i]), number_key(evs[Len(evs)]))})}} :
                front \in {number_sort(SubSeq(evs, 1, Len(evs) - 1))}} : TRUE

(* cli.get_event_by_number: the list of the event it returns, empty for   *)
(* None                                                                   *)
get_event_by_number(S, event_number, today) ==
  CHOOSE x \in
    {IF 1 <= event_number /\ event_number <= Len(filtered_events)
     THEN <<filtered_events[event_number]>>
     ELSE <<>> :
       filtered_events \in
         {number_sort(filter_events_by_date(
                        get_recent_events(S, RecentLimit, today), today))}} : TRUE

(* cli.handle_pin_event with a number as its target: the event selected   *)
(* and the store after; an event that is pinned already or has no id is   *)
(* not written                                                            *)
handle_pin_event(S, event_number, today) ==
  CHOOSE x \in
    {[selected |-> event,
      store |-> IF event = <<>> THEN S
                ELSE IF event[1].pinned \/ event[1].id = 0 THEN S
                ELSE pin_event(S, event[1].id).store] :
       event \in {get_event_by_number(S, event_number, today)}} : TRUE

(* ------------------------------ actions ------------------------------- *)
(* The tables as they were when the operation began, kept for the checks *)
Snapshot == [venues |-> venues, events |-> events, cache |-> cache]

Commit(S) ==
  /\ pre' = Snapshot
  /\ venues' = S.venues
  /\ events' = S.events
  /\ vseq' = S.vseq
  /\ eseq' = S.eseq
  /\ venueLog' = S.venueLog

SaveVenue ==
  \E name \in VenueNames :
    LET r == save_venue(Store, name) IN
    /\ r.store.vseq <= MaxVenueId
    /\ Commit(r.store)
    /\ ret' = [op |-> "save_venue", name |-> name, result |-> r.id]
    /\ UNCHANGED <<cache, now, conns>>

SaveEvents ==
  \E cands \in SeqsUpTo(Candidates, MaxBatch) :
    LET r == save_events(Store, cands, now) IN
    /\ r.store.eseq <= MaxEventId
    /\ Commit(r.store)
    /\ ret' = [op |-> "save_events", events |-> cands, raised |-> r.raised,
               result |-> r.new_count, updated |-> r.updated,
               again |-> /\ ret.op = "save_events"
                         /\ ~ret.raised
                         /\ ret.events = cands]
    /\ UNCHANGED <<cache, now, conns>>

PinEvent ==
  \E id \in 1..(eseq + 1) :
    LET r == pin_event(Store, id) IN
    /\ Commit(r.store)
    /\ ret' = [op |-> "pin_event", id |-> id, result |-> r.result]
    /\ UNCHANGED <<cache, now, conns>>

UnpinEvent ==
  \E id \in 1..(eseq + 1) :
    LET r == unpin_event(Store, id) IN
    /\ Commit(r.store)
    /\ ret' = [op |-> "unpin_event", id |-> id, result |-> r.result]
    /\ UNCHANGED <<cache, now, conns>>

(* save_events called with the list a scraper returns for a page, the    *)
(* empty list of an empty page included                                   *)
SaveScraped ==
  \E venue \in VenueNames, content \in {"", "p1", "p2"} :
    \E r \in {save_events(Store, parse_events(venue, content).events, now)} :
      /\ r.store.eseq <= MaxEventId
      /\ Commit(r.store)
      /\ ret' = [op |-> "save_events", events |-> parse_events(venue, content).events,
                 raised |-> r.raised, result |-> r.new_count, updated |-> r.updated,
                 again |-> FALSE]
      /\ UNCHANGED <<cache, now, conns>>

(* The clock moves on by an hour, or by 25 hours (past the 24-hour window) *)
TickCount(t) == (t % 25) + (t \div 25)

Tick ==
  \E d \in {1, 25} :
    /\ TickCount(now + d) <= MaxTicks
    /\ now' = now + d
    /\ pre' = Snapshot
    /\ ret' = [op |-> "tick"]
    /\ UNCHANGED <<venues, events, vseq, eseq, venueLog, cache, conns>>

(* The network as fetch_page may find it: every attempt may bring a page  *)
(* or fail; the failures of one call are of one kind.                     *)
FetchNets ==
  {net \in Nets :
     /\ \A i \in 1..MaxAttempts : net[i].content \in {"", "p1"}
     /\ \A i, j \in 1..MaxAttempts :
          (net[i].kind # "ok" /\ net[j].kind # "ok") => net[i].kind = net[j].kind}

FetchPage ==
  \E venue \in VenueNames, net \in FetchNets :
    LET r == fetch_page(cache, venue, calendar_url(venue), net, now) IN
    /\ cache' = r.cache
    /\ pre' = Snapshot
    /\ ret' = [op |-> "fetch_page", venue |-> venue, url |-> calendar_url(venue),
               requests |-> SubSeq(net, 1, r.gets), raised |-> r.raised,
               content |-> r.content, sleeps |-> r.sleeps]
    /\ UNCHANGED <<venues, events, vseq, eseq, venueLog, now, conns>>

(* The network as a scrape pass may find it: the page comes at the first  *)
(* attempt, or no attempt succeeds.                                       *)
ScrapeNets ==
  {[i \in 1..MaxAttempts |-> r] :
     r \in [kind : {"ok"}, content : {"", "p1", "bad"}]
             \cup {[kind |-> "network", content |-> ""]}}

ScrapeVenue ==
  \E name \in VenueNames, force_refresh \in BOOLEAN, net \in ScrapeNets :
    \E r \in {scrape_venue(Store, cache, name, force_refresh, net, now)} :
    /\ r.store.vseq <= MaxScrapes
    /\ r.store.eseq <= MaxEventId
    /\ Commit(r.store)
    /\ cache' = r.cache
    /\ ret' = [op |-> "scrape_venue", name |-> name, force_refresh |-> force_refresh,
               raised |-> r.raised, events |-> r.events, fetched |-> r.fetched,
               scraped |-> r.scraped, parsed |-> r.parsed, caught |-> r.caught,
               gets |-> r.gets]
    /\ UNCHANGED <<now, conns>>

ScrapeAllVenues ==
  \E force_refresh \in BOOLEAN, nets \in [VenueNames -> ScrapeNets] :
    \E r \in {scrape_all_venues(Store, cache, force_refresh, nets, now)} :
    /\ r.store.vseq <= MaxScrapes
    /\ r.store.eseq <= MaxEventId
    /\ Commit(r.store)
    /\ cache' = r.cache
    /\ ret' = [op |-> "scrape_all_venues", force_refresh |-> force_refresh,
               raised |-> r.raised, all_events |-> r.all_events,
               venue_stats |-> r.venue_stats, caught |-> r.caught]
    /\ UNCHANGED <<now, conns>>

(* The clock values a calendar run starts at: Dec 30 2025 (the window     *)
(* then ends in the next year) and Jun 15 2026                            *)
CalendarClocks == {0, 24 * 167}

(* The dates of the events given to the filter *)
WindowDates == {20260201, 20260610, 20260630, 20260801}

DatedEvents ==
  {[Event("v1", <<"A">>, Null, NoCost, FALSE) EXCEPT !.date = d] : d \in WindowDates}

InitCalendar ==
  /\ venues = {}
  /\ events = {}
  /\ vseq = 0
  /\ eseq = 0
  /\ venueLog = <<>>
  /\ cache = {}
  /\ now \in CalendarClocks
  /\ conns = [w \in Writers |-> Idle]
  /\ pre = [venues |-> {}, events |-> {}, cache |-> {}]
  /\ ret = [op |-> "init"]

FilterEventsByDate ==
  \E evs \in SeqsUpTo(DatedEvents, MaxFilter) :
    /\ ret' = [op |-> "filter_events_by_date", events |-> evs,
               result |-> filter_events_by_date(evs, Today(now))]
    /\ pre' = Snapshot
    /\ UNCHANGED <<venues, events, vseq, eseq, venueLog, cache, now, conns>>

DisplayCalendar ==
  \E force_refresh \in BOOLEAN, nets \in [VenueNames -> ScrapeNets] :
    \E r \in {display_calendar(Store, cache, force_refresh, nets, now)} :
      /\ r.store.vseq <= MaxScrapes
      /\ r.store.eseq <= MaxEventId
      /\ Commit(r.store)
      /\ cache' = r.cache
      /\ ret' = [op |-> "display_calendar", force_refresh |-> force_refresh,
                 raised |-> r.raised, all_events |-> r.all_events,
                 shown |-> r.shown]
      /\ UNCHANGED <<now, conns>>

(* The month.day pairs a date span is written from *)
SpanMonths == {1, 2, 6, 12, 13}
SpanDays == {1, 15, 29, 31}

DateInputs ==
  {[op |-> "date_text", month |-> month, day |-> day,
    text |-> Str(month) \o <<".">> \o Str(day)] :
     month \in SpanMonths, day \in SpanDays}

ExtractDate ==
  /\ ret.op = "date_text"
  /\ ret' = [op |-> "extract_date", month |-> ret.month, day |-> ret.day,
             text |-> ret.text, result |-> extract_date(ret.text, Today(now))]
  /\ pre' = Snapshot
  /\ UNCHANGED <<venues, events, vseq, eseq, venueLog, cache, now, conns>>

(* The time texts of a page: an hour, minutes and an am/pm marker (<<>>:   *)
(* none) written in one of the styles "8:00pm", "8:00 pm", "8pm", "8 pm", *)
(* "800pm", "at 8:00 pm"                                                  *)
TimeHours == 0..13
TimeMinutes == {0, 5, 30, 59, 75}
Markers == {<<"a", "m">>, <<"p", "m">>, <<"A", "M">>, <<"P", "M">>, <<"P", "m">>, <<>>}
Styles == {"colon", "colon_blank", "hour", "hour_blank", "digits", "at"}

TimeText(h, m, marker, style) ==
  IF style = "colon" THEN Str(h) \o <<":">> \o Str2(m) \o marker
  ELSE IF style = "colon_blank" THEN Str(h) \o <<":">> \o Str2(m) \o <<" ">> \o marker
  ELSE IF style = "hour" THEN Str(h) \o marker
  ELSE IF style = "hour_blank" THEN Str(h) \o <<" ">> \o marker
  ELSE IF style = "digits" THEN Str(h) \o Str2(m) \o marker
  ELSE <<"a", "t", " ">> \o Str(h) \o <<":">> \o Str2(m) \o <<" ">> \o marker

TimeInputs ==
  {[op |-> "time_text", hour |-> x[1], minute |-> x[2], marker |-> x[3],
    style |-> x[4], text |-> TimeText(x[1], x[2], x[3], x[4])] :
     x \in {y \in TimeHours \X TimeMinutes \X Markers \X Styles :
               y[4] \in {"hour", "hour_blank"} => y[2] = 0}}

ParseTimeAmpm ==
  /\ ret.op = "time_text"
  /\ \E r \in {parse_time_ampm(ret.text)} :
       ret' = [op |-> "parse_time_ampm", hour |-> ret.hour, minute |-> ret.minute,
               marker |-> ret.marker, style |-> ret.style, text |-> ret.text,
               raised |-> r.raised, time |-> r.time]
  /\ pre' = Snapshot
  /\ UNCHANGED <<venues, events, vseq, eseq, venueLog, cache, now, conns>>

(* The containers of the pages: one with every field, one with neither    *)
(* time nor cost, and one for each way a mandatory field can be missing   *)
(* (no date span, a text that is no date, a name that is only a quoted    *)
(* tour title, no link, an empty href), and one whose extraction raises.  *)
GoodDate == <<"1", ".", "1", "5">>

Container(date, time, name, href, cost, raises) ==
  [date |-> date, time |-> time, name |-> name, href |-> href, cost |-> cost,
   raises |-> raises]

Containers ==
  {Container(GoodDate, <<"8", ":", "0", "0", " ", "p", "m">>, <<"a">>, "u1", "$5", FALSE),
   Container(GoodDate, NoText, <<"b", ",", " ", "c">>, "u2", NoCost, FALSE),
   Container(NoText, NoText, <<"a">>, "u3", NoCost, FALSE),
   Container(<<"2", ".", "3", "0">>, NoText, <<"a">>, "u4", NoCost, FALSE),
   Container(GoodDate, NoText, <<"\"", "x", "\"">>, "u5", NoCost, FALSE),
   Container(GoodDate, NoText, <<"a">>, NoHref, NoCost, FALSE),
   Container(GoodDate, NoText, <<"a">>, "", NoCost, FALSE),
   Container(GoodDate, NoText, <<"a">>, "u8", NoCost, TRUE)}

PageInputs ==
  {[op |-> "page", venue |-> "v1", containers |-> cs] :
     cs \in SeqsUpTo(Containers, MaxContainers)}

ParseEvents ==
  /\ ret.op = "page"
  /\ ret' = [op |-> "parse_events", venue |-> ret.venue,
             containers |-> ret.containers,
             events |-> parse_containers(ret.venue, ret.containers, Today(now))]
  /\ pre' = Snapshot
  /\ UNCHANGED <<venues, events, vseq, eseq, venueLog, cache, now, conns>>

(* The artist texts of a page: up to three names written with the        *)
(* separators between them                                               *)
ArtistNames == <<<<"a">>, <<"b", "o">>, <<"c">>>>

Separators == {<<",">>, <<",", " ">>, <<" ", "&", " ">>,
               <<" ", "A", "N", "D", " ">>, <<" ", "W", "I", "T", "H", " ">>}

ArtistInputs ==
  {[op |-> "artist_text", count |-> 1, text |-> ArtistNames[1]]}
  \cup {[op |-> "artist_text", count |-> 2,
         text |-> ArtistNames[1] \o s1 \o ArtistNames[2]] : s1 \in Separators}
  \cup {[op |-> "artist_text", count |-> 3,
         text |-> ArtistNames[1] \o s1 \o ArtistNames[2] \o s2 \o ArtistNames[3]] :
          s1 \in Separators, s2 \in Separators}

CleanArtistNames ==
  /\ ret.op = "artist_text"
  /\ ret' = [op |-> "clean_artist_names", count |-> ret.count, text |-> ret.text,
             result |-> clean_artist_names(ret.text)]
  /\ pre' = Snapshot
  /\ UNCHANGED <<venues, events, vseq, eseq, venueLog, cache, now, conns>>

(* The texts of Neck of the Woods elements: "Sun, Jul 20" and "Fri Jul 20" *)
(* (month and day, no year), "Jul.20.2026" and "July 20, 2026"            *)
NeckMonths == {<<1, <<"J", "a", "n">>>>, <<6, <<"J", "u", "n">>>>,
               <<7, <<"J", "u", "l">>>>, <<12, <<"D", "e", "c">>>>,
               <<0, <<"X", "y", "z">>>>}

NeckDays == {1, 20, 31}

NeckText(form, name, day) ==
  IF form = "comma" THEN <<"S", "u", "n", ",", " ">> \o name \o <<" ">> \o Str(day)
  ELSE IF form = "blank" THEN <<"F", "r", "i", " ">> \o name \o <<" ">> \o Str(day)
  ELSE IF form = "dotted"
  THEN name \o <<".">> \o Str2(day) \o <<".", "2", "0", "2", "7">>
  ELSE name \o <<" ">> \o Str(day) \o <<",", " ", "2", "0", "2", "7">>

NeckInputs ==
  {[op |-> "neck_text", form |-> form, month |-> m[1], day |-> day,
    text |-> NeckText(form, m[2], day)] :
     form \in {"comma", "blank", "dotted", "long"}, m \in NeckMonths, day \in NeckDays}

NeckExtractDate ==
  /\ ret.op = "neck_text"
  /\ ret' = [op |-> "neck_extract_date", form |-> ret.form, month |-> ret.month,
             day |-> ret.day, text |-> ret.text,
             result |-> neck_extract_date(ret.text, Today(now))]
  /\ pre' = Snapshot
  /\ UNCHANGED <<venues, events, vseq, eseq, venueLog, cache, now, conns>>

(* The texts given to the parser's functions on a day of CalendarClocks *)
InitParse ==
  /\ venues = {}
  /\ events = {}
  /\ vseq = 0
  /\ eseq = 0
  /\ venueLog = <<>>
  /\ cache = {}
  /\ now \in CalendarClocks
  /\ conns = [w \in Writers |-> Idle]
  /\ pre = [venues |-> {}, events |-> {}, cache |-> {}]
  /\ ret \in DateInputs \cup TimeInputs \cup PageInputs \cup ArtistInputs
              \cup NeckInputs

(* The limits get_recent_events is called with: one that cuts the list   *)
(* and the one of the callers                                            *)
QueryLimits == {1, RecentLimit}

GetRecentEvents ==
  \E limit \in QueryLimits :
    /\ ret' = [op |-> "get_recent_events", limit |-> limit,
               result |-> get_recent_events(Store, limit, Today(now))]
    /\ pre' = Snapshot
    /\ UNCHANGED <<venues, events, vseq, eseq, venueLog, cache, now, conns>>

(* No connection holds the write lock *)
LockFree == \A w \in Writers : ~conns[w].intx

(* The candidates of the threads: two with one identity key and         *)
(* different time and cost, and one of the other venue                   *)
ThreadCandidates == {c \in Candidates : c.artists = <<"A">>}

(* A thread calls save_events *)
BeginSave ==
  \E w \in Writers, cands \in SeqsUpTo(ThreadCandidates, MaxBatch) :
    /\ conns[w].pc \in {"idle", "done"}
    /\ conns' = [conns EXCEPT ![w] = begin_save(Store, cands)]
    /\ UNCHANGED <<venues, events, vseq, eseq, venueLog, cache, now, pre, ret>>

LookupEvent ==
  \E w \in Writers :
    /\ conns[w].pc = "lookup"
    /\ conns' = [conns EXCEPT ![w] = select_existing(conns[w], events)]
    /\ UNCHANGED <<venues, events, vseq, eseq, venueLog, cache, now, pre, ret>>

(* The first write of a connection waits for the lock *)
WriteEvent ==
  \E w \in Writers :
    /\ conns[w].pc = "write"
    /\ conns[w].intx \/ LockFree
    /\ \E c \in {write_event(conns[w], events, eseq)} :
         /\ c.view.eseq <= MaxEventId
         /\ conns' = [conns EXCEPT ![w] = c]
    /\ UNCHANGED <<venues, events, vseq, eseq, venueLog, cache, now, pre, ret>>

FinishSave ==
  \E w \in Writers :
    /\ conns[w].pc = "finish"
    /\ \E r \in {finish_save(Store, conns[w], now)} :
         /\ venues' = r.store.venues
         /\ events' = r.store.events
         /\ eseq' = r.store.eseq
         /\ conns' = [conns EXCEPT ![w] = r.conn]
    /\ UNCHANGED <<vseq, venueLog, cache, now, pre, ret>>

(* pin_event from another thread: its UPDATE waits for the lock as well *)
PinEventLocked ==
  \E id \in 1..eseq :
    /\ LockFree
    /\ events' = pin_event(Store, id).store.events
    /\ UNCHANGED <<venues, vseq, eseq, venueLog, cache, now, conns, pre, ret>>

(* The threads start when the configured venues have been saved *)
InitConcurrent ==
  /\ venues = {[id |-> 1, name |-> "v1", last_scraped |-> Null],
               [id |-> 2, name |-> "v2", last_scraped |-> Null]}
  /\ events = {}
  /\ vseq = 2
  /\ eseq = 0
  /\ venueLog = <<"v1", "v2">>
  /\ cache = {}
  /\ now = 0
  /\ conns = [w \in Writers |-> Idle]
  /\ pre = [venues |-> {}, events |-> {}, cache |-> {}]
  /\ ret = [op |-> "init"]

(* `pin N` typed at the calendar that display_calendar has shown: the    *)
(* numbers are the positions of the list on the screen                    *)
HandlePinEvent ==
  /\ ret.op \in {"display_calendar", "handle_pin_event"}
  /\ ret.shown # <<>>
  /\ \E event_number \in 1..(Len(ret.shown) + 1) :
       \E r \in {handle_pin_event(Store, event_number, Today(now))} :
         /\ Commit(r.store)
         /\ ret' = [op |-> "handle_pin_event", event_number |-> event_number,
                    shown |-> ret.shown, selected |-> r.selected]
  /\ UNCHANGED <<cache, now, conns>>

(* The store's API *)
Next == SaveVenue \/ SaveEvents \/ PinEvent \/ UnpinEvent

Spec == Init /\ [][Next]_vars

(* Scrape passes of the calendar, the user's pins and the clock *)
NextScrape == ScrapeVenue \/ ScrapeAllVenues \/ PinEvent \/ Tick

SpecScrape == Init /\ [][NextScrape]_vars

(* The page fetcher and the clock *)
NextFetch == FetchPage \/ Tick

SpecFetch == Init /\ [][NextFetch]_vars

(* The store's queries after saves and pins *)
NextQuery == SaveVenue \/ SaveEvents \/ PinEvent \/ GetRecentEvents

SpecQuery == Init /\ [][NextQuery]_vars

(* The calendar display after earlier scrapes *)
NextDisplay == DisplayCalendar \/ ScrapeVenue \/ Tick

SpecDisplay == Init /\ [][NextDisplay]_vars

(* The parsers on their own *)
NextParse ==
  \/ ExtractDate
  \/ ParseTimeAmpm
  \/ ParseEvents
  \/ CleanArtistNames
  \/ NeckExtractDate

SpecParse == InitParse /\ [][NextParse]_vars

(* The calendar window: the filter on its own and in scrape_venue *)
NextCalendar == FilterEventsByDate \/ ScrapeVenue

SpecCalendar == InitCalendar /\ [][NextCalendar]_vars

(* Saves as the clock moves on *)
NextStamp == SaveVenue \/ SaveEvents \/ Tick

SpecStamp == Init /\ [][NextStamp]_vars

(* Scrape passes and saves of scraped lists as the clock moves on *)
NextPass == SaveScraped \/ ScrapeVenue \/ Tick

SpecPass == Init /\ [][NextPass]_vars

(* The calendar and the pin command *)
NextPick == DisplayCalendar \/ HandlePinEvent \/ Tick

SpecPick == Init /\ [][NextPick]_vars

(* Two threads in save_events while events are pinned *)
NextConcurrent ==
  \/ BeginSave
  \/ LookupEvent
  \/ WriteEvent
  \/ FinishSave
  \/ PinEventLocked

SpecConcurrent == InitConcurrent /\ [][NextConcurrent]_vars

(* ------------------------------ properties ---------------------------- *)
(* The name of the venue row an event row joins to ("" when it joins none) *)
JoinName(vs, venue_id) ==
  IF \E r \in vs : r.id = venue_id
  THEN (CHOOSE r \in vs : r.id = venue_id).name
  ELSE ""

(* The stored row e, under the venue table vs, has the identity key of c *)
SameKey(vs, e, c) ==
  /\ JoinName(vs, e.venue_id) = c.venue
  /\ e.date = c.date
  /\ e.artists = artists_display(c.artists)
  /\ e.url = c.url

(* Candidate i is the last of the list with its identity key *)
LastOfKey(cands, i) ==
  \A j \in (i + 1)..Len(cands) :
    ~(/\ cands[j].venue = cands[i].venue
      /\ cands[j].date = cands[i].date
      /\ cands[j].artists = cands[i].artists
      /\ cands[j].url = cands[i].url)

(* The pinned stored row p is matched by candidate i of a list of p's      *)
(* venue's events *)
PinnedMatch(p, i) ==
  /\ p.pinned
  /\ SameKey(pre.venues, p, ret.events[i])
  /\ \A j \in 1..Len(ret.events) : ret.events[j].venue = ret.events[i].venue
  /\ LastOfKey(ret.events, i)

(* C1: pin preservation in reconcile.  When save_events is called with a   *)
(* candidate that has the identity key (venue, date, artist string, URL)   *)
(* of a stored pinned event, the stored record stays pinned and its time   *)
(* and cost become the candidate's (in a list of that venue's events; of   *)
(* several candidates with the key, the last one's).                       *)
C1_PinPreservation ==
  (ret.op = "save_events" /\ ~ret.raised) =>
    \A p \in pre.events : \A i \in 1..Len(ret.events) :
      PinnedMatch(p, i) =>
        \E e \in events : /\ e.id = p.id
                          /\ e.pinned
                          /\ e.time = ret.events[i].time
                          /\ e.cost = ret.events[i].cost

C1_Witness ==
  /\ ret.op = "save_events"
  /\ ~ret.raised
  /\ \E p \in pre.events : \E i \in 1..Len(ret.events) :
       /\ PinnedMatch(p, i)
       /\ p.time # ret.events[i].time
       /\ p.cost # ret.events[i].cost

(* C2: a pin survives a full re-scrape pass.  After scrape_venue, an event *)
(* that was pinned, is stored for that venue, is not past and whose        *)
(* identity key the scrape reproduced is still stored pinned and is        *)
(* returned as pinned by get_recent_events and by get_pinned_events.       *)
C2_PinSurvivesRescrape ==
  (ret.op = "scrape_venue" /\ ~ret.raised) =>
    \A p \in pre.events :
      ( /\ p.pinned
        /\ p.date >= Today(now)
        /\ \E i \in 1..Len(ret.scraped) :
             /\ ret.scraped[i].venue = ret.name
             /\ SameKey(pre.venues, p, ret.scraped[i]) )
      => /\ \E e \in events : e.id = p.id /\ e.pinned
         /\ \E k \in DOMAIN get_pinned_events(Store, Today(now)) :
              get_pinned_events(Store, Today(now))[k].id = p.id
         /\ \E k \in DOMAIN get_recent_events(Store, RecentLimit, Today(now)) :
              /\ get_recent_events(Store, RecentLimit, Today(now))[k].id = p.id
              /\ get_recent_events(Store, RecentLimit, Today(now))[k].pinned

(* C3: identity stability.  A second save_events in a row with the same    *)
(* candidate list returns 0, leaves the number of stored events unchanged  *)
(* and changes no record's pinned flag.                                    *)
C3_IdentityStability ==
  (ret.op = "save_events" /\ ret.again) =>
    /\ ~ret.raised
    /\ ret.result = 0
    /\ Cardinality(events) = Cardinality(pre.events)
    /\ \A e \in events : \E p \in pre.events : p.id = e.id /\ p.pinned = e.pinned

C3_Witness ==
  /\ ret.op = "save_events"
  /\ ret.again
  /\ Len(ret.events) >= 2
  /\ \E e \in events : e.id \in ret.updated /\ e.pinned
  /\ \E e \in events : e.id \in ret.updated /\ ~e.pinned

(* C4: venue upsert keeps identity.  save_venue for a name already stored  *)
(* leaves get_venue_id(name) the same, and every event stored for that     *)
(* venue is still joined to it.                                            *)
C4_VenueUpsertKeepsIdentity ==
  (ret.op = "save_venue" /\ get_venue_id(pre, ret.name) # 0) =>
    /\ get_venue_id(Store, ret.name) = get_venue_id(pre, ret.name)
    /\ \A p \in pre.events :
         JoinName(pre.venues, p.venue_id) = ret.name =>
           \E e \in events : e.id = p.id /\ JoinName(venues, e.venue_id) = ret.name

(* C5: no duplicates.  The store holds at most one event record per        *)
(* identity key (the name of the venue it was saved for, date, artist      *)
(* string, URL).                                                           *)
C5_NoDuplicates ==
  \A e1, e2 \in events :
    ( /\ venueLog[e1.venue_id] = venueLog[e2.venue_id]
      /\ e1.date = e2.date
      /\ e1.artists = e2.artists
      /\ e1.url = e2.url )
    => e1.id = e2.id

(* C6: freshness gate.  scrape_venue without force_refresh returns the     *)
(* stored events of a venue saved 1 hour earlier without calling the       *)
(* scraper's fetch, and calls the fetch for a venue saved 25 hours         *)
(* earlier.                                                                *)
C6_FreshnessGate ==
  (ret.op = "scrape_venue" /\ ~ret.force_refresh) =>
    \A r \in pre.venues :
      (r.name = ret.name /\ r.last_scraped # Null) =>
        /\ (now - r.last_scraped = 1) =>
             /\ ~ret.fetched
             /\ ret.events = filter_events_by_date(
                               get_cached_events_for_venue(pre, ret.name), Today(now))
        /\ (now - r.last_scraped = 25) => ret.fetched

(* C7: forced refresh.  scrape_venue with force_refresh fetches the page   *)
(* from the network and parses it, also when the stored data and the page  *)
(* cache entry are fresh.                                                  *)
C7_ForcedRefresh ==
  (ret.op = "scrape_venue" /\ ret.force_refresh) =>
    /\ ret.fetched
    /\ ret.gets >= 1
    /\ ret.parsed \/ ret.caught

(* C8: fetch retry bound.  On a cache miss fetch_page issues 1 to 3 GETs,  *)
(* returns the content of the first that succeeds and issues none after    *)
(* it, raises if and only if all 3 fail, and sleeps 1 then 2 between       *)
(* attempts, never after the last.                                         *)
CacheMiss ==
  ~\E r \in pre.cache : /\ r.venue = ret.venue
                        /\ r.url = ret.url
                        /\ now - r.ts < CacheHours

C8_FetchRetryBound ==
  (ret.op = "fetch_page" /\ CacheMiss) =>
    LET n == Len(ret.requests) IN
    /\ n \in 1..3
    /\ \A i \in 1..(n - 1) : ret.requests[i].kind # "ok"
    /\ ~ret.raised => /\ ret.requests[n].kind = "ok"
                      /\ ret.content = ret.requests[n].content
    /\ ret.raised <=> (n = 3 /\ \A i \in 1..3 : ret.requests[i].kind # "ok")
    /\ ret.sleeps = SubSeq(<<1, 2>>, 1, n - 1)

C8_Witness ==
  /\ ret.op = "fetch_page"
  /\ CacheMiss
  /\ Len(ret.requests) = 3
  /\ ~ret.raised
  /\ ret.sleeps = <<1, 2>>

(* C9: fetch cache round trip.  After fetch_page succeeded for (venue,     *)
(* url), a later fetch_page for it within the freshness window returns     *)
(* the same content and issues no HTTP request; a fetch_page whose         *)
(* attempts all fail writes nothing to the cache.                          *)
C9_FetchCacheRoundTrip ==
  (ret.op = "fetch_page") =>
    /\ \A r \in pre.cache :
         (r.venue = ret.venue /\ r.url = ret.url /\ now - r.ts < CacheHours) =>
           /\ ~ret.raised
           /\ ret.content = r.content
           /\ ret.requests = <<>>
    /\ ret.raised => cache = pre.cache

(* C10: venue failure isolation.  scrape_all_venues does not raise when    *)
(* fetching or parsing fails for a venue: every configured venue is        *)
(* processed, and venue_stats has one entry per enabled venue, the number  *)
(* of that venue's events in the returned list.                            *)
C10_VenueFailureIsolation ==
  (ret.op = "scrape_all_venues") =>
    /\ ~ret.raised
    /\ \A v \in Range(VENUES_CONFIG) :
         \E r \in venues : r.name = v /\ r.id \notin {q.id : q \in pre.venues}
    /\ DOMAIN ret.venue_stats = Range(VENUES_CONFIG)
    /\ \A v \in Range(VENUES_CONFIG) :
         ret.venue_stats[v] =
           Cardinality({i \in 1..Len(ret.all_events) : ret.all_events[i].venue = v})

C10_Witness ==
  /\ ret.op = "scrape_all_venues"
  /\ VENUES_CONFIG[1] \in ret.caught
  /\ VENUES_CONFIG[2] \notin ret.caught
  /\ ret.venue_stats[VENUES_CONFIG[1]] = 0
  /\ ret.venue_stats[VENUES_CONFIG[2]] = 1

(* The window as the calendar states it: from the first day of today's    *)
(* month to the first day of the month after next                         *)
WindowStart(today) == (today \div 100) * 100 + 1

WindowEnd(today) ==
  LET y == today \div 10000
      m == (today \div 100) % 100
  IN IF m <= 10 THEN y * 10000 + (m + 2) * 100 + 1
     ELSE (y + 1) * 10000 + (m - 10) * 100 + 1

(* The positions of src whose event is in the window and not past *)
Kept(src, today) ==
  {i \in 1..Len(src) : /\ WindowStart(today) <= src[i].date
                        /\ src[i].date < WindowEnd(today)
                        /\ src[i].date >= today}

(* res is src restricted to the kept positions, in the order of src *)
IsFiltered(res, src, today) ==
  /\ Len(res) = Cardinality(Kept(src, today))
  /\ \A i \in Kept(src, today) :
       res[Cardinality({j \in Kept(src, today) : j <= i})] = src[i]

(* C11: calendar window filter.  filter_events_by_date returns exactly the *)
(* input events with start <= date < end and date >= today, in input      *)
(* order, where start is the first day of the current month and end the   *)
(* first day of the month after next; the list scrape_venue returns is    *)
(* the list it scraped (or, when that is empty, the venue's stored        *)
(* events) filtered so.                                                   *)
C11_CalendarWindow ==
  /\ (ret.op = "filter_events_by_date") =>
       IsFiltered(ret.result, ret.events, Today(now))
  /\ (ret.op = "scrape_venue" /\ ~ret.raised) =>
       IsFiltered(ret.events,
                  IF ret.scraped # <<>> THEN ret.scraped
                  ELSE get_cached_events_for_venue(Store, ret.name),
                  Today(now))

C11_Witness ==
  /\ ret.op = "filter_events_by_date"
  /\ Today(now) = 20260615
  /\ Len(ret.events) = 2
  /\ ret.events[1].date = 20260610
  /\ ret.events[2].date = 20260630
  /\ ret.result = <<ret.events[2]>>

(* a is shown before b by the stated order: date, then time with a missing *)
(* time first, then identifier                                            *)
ShownBefore(a, b) ==
  \/ a.date < b.date
  \/ a.date = b.date /\ a.time < b.time
  \/ a.date = b.date /\ a.time = b.time /\ a.id <= b.id

(* The merged lists of runs that produce the same events in any order *)
Reorderings(evs) ==
  {[i \in 1..Len(evs) |-> evs[p[i]]] : p \in Permutations(1..Len(evs))}

(* C12: deterministic display order.  The list display_calendar shows is  *)
(* ordered by date, then time (a missing time first), then identifier,    *)
(* and is the same for every order in which the same events were merged.  *)
C12_DeterministicDisplayOrder ==
  (ret.op = "display_calendar" /\ ~ret.raised) =>
    /\ \A i, j \in 1..Len(ret.shown) :
         i < j => ShownBefore(ret.shown[i], ret.shown[j])
    /\ \A evs \in Reorderings(ret.all_events) :
         (IF evs = <<>> THEN <<>> ELSE list_sort(evs)) = ret.shown

(* C13: date resolution.  For a month.day text that gives a date,         *)
(* _extract_date resolves the year to the current year + 1 when the       *)
(* parsed month is less than the current month and to the current year    *)
(* otherwise, the current month included; month and day are the parsed.   *)
C13_DateResolution ==
  (ret.op = "extract_date") =>
    LET current_year == Today(now) \div 10000
        current_month == (Today(now) \div 100) % 100
        year == IF ret.month < current_month THEN current_year + 1 ELSE current_year
    IN IF IsDate(year, ret.month, ret.day)
       THEN ret.result = year * 10000 + ret.month * 100 + ret.day
       ELSE ret.result = Null

C13_Witness ==
  /\ ret.op = "extract_date"
  /\ (Today(now) \div 100) % 100 = 12
  /\ ret.month = 12
  /\ ret.result = (Today(now) \div 10000) * 10000 + 1200 + ret.day

(* The 24-hour hour of hour h with a marker, by the 12-hour clock rule *)
Hour24(h, marker) ==
  IF lower(marker[1]) = "a" THEN (IF h = 12 THEN 0 ELSE h)
  ELSE (IF h = 12 THEN 12 ELSE h + 12)

(* C14: time conversion.  For every hour 1..12, minute 0..59 (omitted     *)
(* minutes are 0) and am/pm marker in any letter case, parse_time_ampm    *)
(* returns the 24-hour time: 0 for 12 am, h for 1..11 am, 12 for 12 pm,   *)
(* h + 12 for 1..11 pm, with the minute unchanged.                        *)
C14_TimeConversion ==
  ( /\ ret.op = "parse_time_ampm"
    /\ ret.hour \in 1..12
    /\ ret.minute \in 0..59
    /\ ret.marker # <<>> )
  => /\ ~ret.raised
     /\ ret.time = Hour24(ret.hour, ret.marker) * 100 + ret.minute

C14_Witness ==
  /\ ret.op = "parse_time_ampm"
  /\ ret.text = <<"1", "2", ":", "3", "0", " ", "P", "M">>
  /\ ret.time = 1230

(* C15: time parsing never raises.  parse_time_ampm returns a time of day *)
(* (hour 0..23, minute 0..59) or no time; a text without an am/pm marker, *)
(* and a text whose minute is past 59 or whose hour is past 23 after the  *)
(* conversion (hour 13 with pm, minute 75), give no time, not an          *)
(* exception.                                                             *)
C15_TimeParsingNeverRaises ==
  (ret.op = "parse_time_ampm") =>
    /\ ~ret.raised
    /\ \/ ret.time = Null
       \/ (ret.time \div 100) \in 0..23 /\ (ret.time % 100) \in 0..59
    /\ ret.marker = <<>> => ret.time = Null
    /\ (ret.marker # <<>> /\ ret.minute > 59) => ret.time = Null
    /\ (ret.marker # <<>> /\ lower(ret.marker[1]) = "p" /\ ret.hour > 12)
         => ret.time = Null

C15_Witness ==
  /\ ret.op = "parse_time_ampm"
  /\ ret.text = <<"1", "3", ":", "0", "0", " ", "p", "m">>
  /\ ~ret.raised
  /\ ret.time = Null

(* The container has the three mandatory fields: a date text that gives a *)
(* date, a name that leaves an artist, a link with a non-empty href       *)
Mandatory(c) ==
  /\ c.date = GoodDate
  /\ c.name \in {<<"a">>, <<"b", ",", " ", "c">>}
  /\ c.href \notin {NoHref, ""}

(* The store after scrape_venue has saved the events parse_events emitted *)
StoreAfterSave ==
  IF ret.events = <<>> THEN save_venue(Store, ret.venue).store
  ELSE save_events(save_venue(Store, ret.venue).store, ret.events, now).store

(* C16: mandatory-field rejection.  parse_events emits no event for a     *)
(* container without a resolvable date, without artists or without a URL, *)
(* so none is in the store after the emitted events are saved; a          *)
(* container with all three is emitted, also without time and cost.       *)
C16_MandatoryFieldRejection ==
  (ret.op = "parse_events") =>
    /\ \A i \in 1..Len(ret.events) :
         /\ ret.events[i].date # Null
         /\ ret.events[i].artists # <<>>
         /\ \E k \in 1..Len(ret.containers) :
              Mandatory(ret.containers[k]) /\ ret.containers[k].href = ret.events[i].url
    /\ \A e \in StoreAfterSave.events :
         \E k \in 1..Len(ret.containers) :
           Mandatory(ret.containers[k]) /\ ret.containers[k].href = e.url
    /\ \A k \in 1..Len(ret.containers) :
         (Mandatory(ret.containers[k]) /\ ~ret.containers[k].raises) =>
           \E i \in 1..Len(ret.events) :
             /\ ret.events[i].url = ret.containers[k].href
             /\ \E e \in StoreAfterSave.events : e.url = ret.containers[k].href

C16_Witness ==
  /\ ret.op = "parse_events"
  /\ Len(ret.containers) = 2
  /\ ret.containers[1].name = <<"\"", "x", "\"">>
  /\ ret.containers[2].time = NoText
  /\ ret.containers[2].cost = NoCost
  /\ Len(ret.events) = 1
  /\ ret.events[1].url = ret.containers[2].href
  /\ ret.events[1].time = Null

(* The positions of the containers that give an event *)
ValidContainers(cs) == {k \in 1..Len(cs) : Mandatory(cs[k]) /\ ~cs[k].raises}

(* C17: per-container isolation.  A container that raises or is rejected  *)
(* does not end the parse: parse_events emits exactly the events of the   *)
(* other, valid containers, in document order.                            *)
C17_PerContainerIsolation ==
  (ret.op = "parse_events") =>
    /\ Len(ret.events) = Cardinality(ValidContainers(ret.containers))
    /\ \A k \in ValidContainers(ret.containers) :
         ret.events[Cardinality({j \in ValidContainers(ret.containers) : j <= k})].url
           = ret.containers[k].href

C17_Witness ==
  /\ ret.op = "parse_events"
  /\ Len(ret.containers) = 2
  /\ ret.containers[1].raises
  /\ Mandatory(ret.containers[2])
  /\ Len(ret.events) = 1
  /\ ret.events[1].url = ret.containers[2].href

(* C18: pin_event(id) and unpin_event(id) set the pinned flag of the      *)
(* record with that id to true and false, change no other field of it,   *)
(* no other record and no venue, and return true exactly when a record    *)
(* with that id exists; for an id that does not exist nothing changes.    *)
C18_PinFrame ==
  (ret.op \in {"pin_event", "unpin_event"}) =>
    /\ ret.result <=> \E p \in pre.events : p.id = ret.id
    /\ events = {IF p.id = ret.id
                 THEN [p EXCEPT !.pinned = (ret.op = "pin_event")]
                 ELSE p : p \in pre.events}
    /\ venues = pre.venues
    /\ cache = pre.cache
    /\ (~ret.result) => events = pre.events

C18_Witness ==
  /\ ret.op = "unpin_event"
  /\ ret.result
  /\ \E p \in pre.events : p.id = ret.id /\ p.pinned
  /\ \E p \in pre.events : p.id # ret.id /\ p.pinned
  /\ \E e \in events : e.id = ret.id /\ ~e.pinned

(* a comes no later than b in the order pinned first, then date, then time *)
RecentBefore(a, b) ==
  \/ a.pinned /\ ~b.pinned
  \/ a.pinned = b.pinned /\ a.date < b.date
  \/ a.pinned = b.pinned /\ a.date = b.date /\ a.time <= b.time

(* C19: get_recent_events(limit) returns at most limit events, each with  *)
(* date >= today, all pinned before all unpinned and each group by        *)
(* ascending date then time; they are the first limit events of the       *)
(* store in that order.                                                   *)
C19_RecentEvents ==
  (ret.op = "get_recent_events") =>
    LET future == {e \in events : e.date >= Today(now)}
        n == Len(ret.result)
    IN /\ n <= ret.limit
       /\ \A i \in 1..n : ret.result[i].date >= Today(now)
       /\ \A i, j \in 1..n : i < j => RecentBefore(ret.result[i], ret.result[j])
       /\ \A i, j \in 1..n : ret.result[i].id = ret.result[j].id => i = j
       /\ \A i \in 1..n : \E e \in future :
            /\ e.id = ret.result[i].id
            /\ e.pinned = ret.result[i].pinned
            /\ e.date = ret.result[i].date
            /\ e.time = ret.result[i].time
       /\ n = (IF Cardinality(future) < ret.limit THEN Cardinality(future) ELSE ret.limit)
       /\ \A e \in future :
            (\A i \in 1..n : ret.result[i].id # e.id) =>
              \A i \in 1..n : RecentBefore(ret.result[i], e)

(* C20: ConfigurationError.  save_events called with events whose venue   *)
(* name has no stored venue record raises an error and leaves the store   *)
(* unchanged: no event inserted or updated, no last_scraped changed.      *)
C20_ConfigurationError ==
  ( /\ ret.op = "save_events"
    /\ ret.events # <<>>
    /\ \A i \in 1..Len(ret.events) : get_venue_id(pre, ret.events[i].venue) = 0 )
  => /\ ret.raised
     /\ ret.result = 0
     /\ events = pre.events
     /\ venues = pre.venues

C20_Witness ==
  /\ ret.op = "save_events"
  /\ ret.raised
  /\ ret.events # <<>>
  /\ \A i \in 1..Len(ret.events) : get_venue_id(pre, ret.events[i].venue) = 0
  /\ pre.events # {}
  /\ \E r \in pre.venues : r.last_scraped # Null
  /\ events = pre.events

(* The identity key candidate i of connection c is looked up and stored  *)
(* with *)
ThreadKey(c, i) ==
  <<c.venue_id, c.cands[i].date, artists_display(c.cands[i].artists), c.cands[i].url>>

(* Two finished save_events calls both found the same key not stored *)
Collided(w1, i, w2, j) ==
  /\ w1 # w2
  /\ conns[w1].pc = "done"
  /\ conns[w2].pc = "done"
  /\ i \in conns[w1].missed
  /\ j \in conns[w2].missed
  /\ ThreadKey(conns[w1], i) = ThreadKey(conns[w2], j)

(* C21: atomic upsert under concurrency.  When two threads run save_events *)
(* with a candidate of the same identity key that neither found stored,   *)
(* then once both have finished, whatever the order of their lookup and   *)
(* insert steps, neither has failed with an error and the store holds     *)
(* exactly one record of that key.                                        *)
C21_AtomicUpsert ==
  \A w1, w2 \in Writers : \A i \in conns[w1].missed, j \in conns[w2].missed :
    Collided(w1, i, w2, j) =>
      /\ conns[w1].error = ""
      /\ conns[w2].error = ""
      /\ Cardinality(Existing(events, conns[w1].venue_id, conns[w1].cands[i])) = 1

(* The separators the names of an artist text are split at *)
SplitSeparators == {<<",">>, <<"&">>, <<" ", "A", "N", "D", " ">>,
                    <<" ", "W", "I", "T", "H", " ">>}

(* The first n names of ArtistNames in uppercase, in order *)
UpperNames(n) ==
  [k \in 1..n |-> [i \in 1..Len(ArtistNames[k]) |-> upper(ArtistNames[k][i])]]

(* C22: artist normalization.  clean_artist_names returns the names of    *)
(* the text in their left-to-right order, each non-empty and uppercase,  *)
(* and splits at every separator ",", "&", " AND ", " WITH " of the text: *)
(* no returned name contains a separator.                                 *)
C22_ArtistNormalization ==
  ret.op = "clean_artist_names" =>
    /\ ret.result = UpperNames(ret.count)
    /\ \A k \in 1..Len(ret.result) :
         /\ ret.result[k] # <<>>
         /\ \A i \in 1..Len(ret.result[k]) : ret.result[k][i] = upper(ret.result[k][i])
         /\ \A sep \in SplitSeparators : find(ret.result[k], sep) = 0

(* C23: after save_events has processed a non-empty candidate list, the   *)
(* last_scraped of the list's venue is the time of the call, whether the  *)
(* candidates were inserted or matched stored records, and no other       *)
(* venue row has changed.                                                 *)
C23_LastScraped ==
  (ret.op = "save_events" /\ ~ret.raised /\ ret.events # <<>>) =>
    /\ \A r \in venues :
         IF r.id = get_venue_id(pre, ret.events[1].venue)
         THEN r.last_scraped = now
         ELSE r \in pre.venues
    /\ {r.id : r \in venues} = {r.id : r \in pre.venues}

(* A list whose candidates all matched stored records is saved an hour    *)
(* after the venue's last save, while another venue has a timestamp       *)
C23_Witness ==
  /\ ret.op = "save_events"
  /\ ~ret.raised
  /\ ret.events # <<>>
  /\ ret.result = 0
  /\ ret.updated # {}
  /\ \E r \in pre.venues : /\ r.id = get_venue_id(pre, ret.events[1].venue)
                           /\ r.last_scraped # Null
                           /\ r.last_scraped # now
  /\ \E r \in venues : /\ r.id # get_venue_id(pre, ret.events[1].venue)
                       /\ r.last_scraped # Null
                       /\ r.last_scraped # now

(* C24: fallback on an empty scrape.  When scrape_venue scrapes (the      *)
(* venue is stale or the refresh forced) and the scrape yields no events, *)
(* by a failed fetch or a page without events, it returns the events      *)
(* stored for the venue before the call, window-filtered, and leaves the  *)
(* stored events as they were.                                            *)
C24_FallbackOnEmptyScrape ==
  (ret.op = "scrape_venue" /\ ~ret.raised /\ ret.fetched /\ ret.scraped = <<>>) =>
    /\ ret.events = filter_events_by_date(
                      get_cached_events_for_venue(pre, ret.name), Today(now))
    /\ events = pre.events

(* C25: date resolution (Neck of the Woods).  When _extract_date parses  *)
(* a month and a day with no year ("Sun, Jul 20"), the year is the        *)
(* current year + 1 if the month is earlier than the current month, and   *)
(* the current year otherwise.                                            *)
C25_NeckDateResolution ==
  ( /\ ret.op = "neck_extract_date"
    /\ ret.form \in {"comma", "blank"}
    /\ ret.month # 0
    /\ ret.result # Null ) =>
    ret.result = (IF ret.month < (Today(now) \div 100) % 100
                  THEN (Today(now) \div 10000) + 1
                  ELSE Today(now) \div 10000) * 10000 + ret.month * 100 + ret.day

(* The event a and the event b are the same event of the calendar *)
SameEvent(a, b) ==
  /\ a.venue = b.venue
  /\ a.date = b.date
  /\ a.artists = b.artists
  /\ a.url = b.url

(* C26: pin-by-number matches the calendar.  The event that                *)
(* get_event_by_number(N) selects for `pin N` is the event the calendar   *)
(* view displays at position N, also when some events are pinned already. *)
C26_PinByNumberMatchesCalendar ==
  (ret.op = "handle_pin_event" /\ ret.event_number <= Len(ret.shown)) =>
    /\ ret.selected # <<>>
    /\ SameEvent(ret.selected[1], ret.shown[ret.event_number])

(* The last call was a scrape_venue whose scrape yielded no events *)
EmptyScrape ==
  /\ ret.op = "scrape_venue"
  /\ ~ret.raised
  /\ ret.fetched
  /\ ret.scraped = <<>>

(* save_events with an empty list returns 0 and changes nothing; an empty *)
(* scrape leaves the events and the other venues as they were and the     *)
(* venue's last_scraped not later than it was                             *)
NotMarked ==
  /\ (ret.op = "save_events" /\ ret.events = <<>>) =>
       /\ ~ret.raised
       /\ ret.result = 0
       /\ events = pre.events
       /\ venues = pre.venues
  /\ EmptyScrape =>
       /\ events = pre.events
       /\ \A r \in venues :
            IF r.name = ret.name
            THEN \/ r.last_scraped = Null
                 \/ \E q \in pre.venues : /\ q.name = r.name
                                          /\ q.last_scraped # Null
                                          /\ r.last_scraped <= q.last_scraped
            ELSE r \in pre.venues
       /\ ~is_venue_data_fresh(Store, ret.name, CacheHours, now)

(* A non-forced scrape_venue that follows an empty scrape of the venue    *)
(* calls the scraper again                                                *)
FetchesAgain ==
  (EmptyScrape /\ ret'.op = "scrape_venue" /\ ret'.name = ret.name
     /\ ~ret'.force_refresh) => ret'.fetched

(* C27: a scrape pass that yields zero events never marks the venue as    *)
(* scraped: save_events with an empty list returns 0 and changes nothing, *)
(* scrape_venue does not advance the venue's last_scraped when the scrape *)
(* is empty, and the next non-forced scrape_venue of the venue fetches    *)
(* again.                                                                 *)
C27_EmptyScrapeNotMarked == []NotMarked /\ [][FetchesAgain]_vars

(* An empty scrape of a venue that an earlier pass had stamped *)
C27_Witness ==
  /\ EmptyScrape
  /\ ~ret.force_refresh
  /\ \E q \in pre.venues : /\ q.name = ret.name
                           /\ q.last_scraped # Null
                           /\ q.last_scraped < now

(* Every pinned record is still stored and pinned after the step *)
PinKept ==
  \A e \in events : e.pinned => \E f \in events' : f.id = e.id /\ f.pinned

(* C28: a pin is never lost to a concurrent reconcile: once pin_event(id) *)
(* has committed, before, between or after the lookup and the update of a *)
(* concurrent save_events that matches the record, no step of any         *)
(* save_events unpins or removes the record, so it is pinned when both    *)
(* have finished.                                                         *)
C28_PinNeverLost == [][PinKept]_vars

(* pin_event committed between the lookup and the update: the SELECT saw  *)
(* the record unpinned, the UPDATE has run in the transaction and the     *)
(* record is pinned there                                                 *)
C28_Witness ==
  \E w \in Writers :
    /\ conns[w].pc = "finish"
    /\ conns[w].intx
    /\ \E x \in conns[w].existing :
         /\ ~x.pinned
         /\ \E e \in conns[w].view.events :
              /\ e.id = x.id
              /\ e.pinned
              /\ e.time = conns[w].cands[Len(conns[w].cands)].time
              /\ e.cost = conns[w].cands[Len(conns[w].cands)].cost
         /\ \E e \in events : e.id = x.id /\ e.pinned

(* The candidates a and b have one identity key under a venue id: the   *)
(* SELECT of save_events compares date, artists_display and url           *)
SameCandidateKey(a, b) ==
  /\ a.date = b.date
  /\ artists_display(a.artists) = artists_display(b.artists)
  /\ a.url = b.url

(* The positions of the list whose candidate has the key of position i *)
KeyPositions(cands, i) == {j \in 1..Len(cands) : SameCandidateKey(cands[j], cands[i])}

(* The last call was a save_events that processed its list; the id of    *)
(* the venue of events[0] is that of the store the call found             *)
Saved == ret.op = "save_events" /\ ~ret.raised /\ ret.events # <<>>

SavedVenueId == get_venue_id([venues |-> pre.venues], ret.events[1].venue)

(* The position i of the list has a key that occurs again in the list    *)
(* and was not stored when the call began                                 *)
DuplicateNew(i) ==
  /\ Cardinality(KeyPositions(ret.events, i)) >= 2
  /\ Existing(pre.events, SavedVenueId, ret.events[i]) = {}

(* C29: duplicates inside one batch collapse: when one save_events call  *)
(* receives two or more candidates with one identity key that is not yet *)
(* stored, exactly one record is inserted for the key, the returned      *)
(* count is the number of inserted records, and the record has the time  *)
(* and cost of the last such candidate of the list.                      *)
C29_BatchDuplicatesCollapse ==
  Saved =>
    \A i \in 1..Len(ret.events) :
      DuplicateNew(i) =>
        /\ Cardinality(Existing(events, SavedVenueId, ret.events[i])) = 1
        /\ ret.result = Cardinality({e \in events :
                                       \A p \in pre.events : p.id # e.id})
        /\ ret.result = Cardinality({KeyPositions(ret.events, j) :
                                       j \in {k \in 1..Len(ret.events) :
                                                Existing(pre.events, SavedVenueId,
                                                         ret.events[k]) = {}}})
        /\ \A e \in Existing(events, SavedVenueId, ret.events[i]) :
             \E last \in KeyPositions(ret.events, i) :
               /\ \A j \in KeyPositions(ret.events, i) : j <= last
               /\ e.time = ret.events[last].time
               /\ e.cost = ret.events[last].cost
               /\ \A p \in pre.events : p.id # e.id

(* A list of two candidates with one new key and different time and cost *)
C29_Witness ==
  /\ Saved
  /\ Len(ret.events) = 2
  /\ DuplicateNew(1)
  /\ ret.events[1].time # ret.events[2].time
  /\ ret.events[1].cost # ret.events[2].cost
  /\ ret.result = 1

(* C30: save_events resolves the venue once, from the first event of    *)
(* the list: every candidate is looked up against and stored under the   *)
(* venue of events[0], whatever its own venue field says (a record with  *)
(* its key stands under that venue afterwards, the records of the other  *)
(* venues are untouched, the count is that of the keys new under that    *)
(* venue), and only that venue's last_scraped is written.                *)
C30_VenueOfFirstEvent ==
  Saved =>
    /\ SavedVenueId # 0
    /\ \A i \in 1..Len(ret.events) :
         Existing(events, SavedVenueId, ret.events[i]) # {}
    /\ \A e \in events : e.venue_id # SavedVenueId => e \in pre.events
    /\ \A p \in pre.events : p.venue_id # SavedVenueId => p \in events
    /\ ret.result = Cardinality({KeyPositions(ret.events, j) :
                                   j \in {k \in 1..Len(ret.events) :
                                            Existing(pre.events, SavedVenueId,
                                                     ret.events[k]) = {}}})
    /\ \A r \in venues : r.id # SavedVenueId => r \in pre.venues
    /\ \A p \in pre.venues : p.id # SavedVenueId => p \in venues
    /\ \E r \in venues : r.id = SavedVenueId /\ r.last_scraped = now

(* A list whose second candidate names another stored venue, under which *)
(* its key is stored, while it is new under the venue of events[0]       *)
C30_Witness ==
  /\ Saved
  /\ \E i \in 1..Len(ret.events) :
       /\ ret.events[i].venue # ret.events[1].venue
       /\ get_venue_id(pre, ret.events[i].venue) # 0
       /\ Existing(pre.events, get_venue_id(pre, ret.events[i].venue),
                   ret.events[i]) # {}
       /\ Existing(pre.events, SavedVenueId, ret.events[i]) = {}
       /\ \E r \in venues : /\ r.id = get_venue_id(pre, ret.events[i].venue)
                            /\ r.last_scraped # now

====
